---------------------------- MODULE Spec2Model ----------------------------
(***************************************************************************)
(* Question segmentation and crop-region reconciliation of the sedu        *)
(* backend: QuestionCropper (workers/extraction/cropper.py) and            *)
(* DocumentExtractionPipeline (workers/extraction/pipeline.py).            *)
(*                                                                         *)
(* Numbers that Python holds as floats in [0,1] (crop ratios) are held     *)
(* here as integers in units of 1/RatioScale, and products such as         *)
(* int(ratio * height) are computed exactly on those integers.             *)
(***************************************************************************)
EXTENDS Integers, Sequences, FiniteSets, TLC

VARIABLES
    pages,               \* rendered pages: sequence of [height, width]; <<>> = nothing rendered
    question_count,      \* the question_count argument
    hints,               \* the question_crop_hints argument ([none |-> TRUE] = not given)
    planned,             \* result of _ranges_from_page_hints
    question_labels,     \* the question_labels argument (None or a list)
    canvas,              \* result of _render_canvas (None or a page)
    ranges,              \* canvas ranges: result of _ranges_from_hints or _normalize_ranges
    starts_with_qno,     \* result of _detect_question_starts
    picked_starts,       \* the starts handed to _normalize_ranges
    tiers,               \* the planners tried so far, in order
    ocr_calls,           \* calls made to the secondary OCR port and to the local OCR engine
    storage,             \* keys of the blobs saved through the storage port, in order
    traces,              \* the returned list (None until the call returns)
    raised,              \* an exception escaped the call
    extraction_mode,     \* DocumentExtractionPipeline.extraction_mode
    llm,                 \* the configured LLM port: "none", "mock", "text" or "multimodal"
    ocr_fallback,        \* provider_name of the configured OCR port
    document,            \* the uploaded document (payload, content type, file name)
    page_idx,            \* the page being sent to the multimodal LLM
    all_questions,       \* questions collected from the pages so far
    extracted,           \* hybrid: the (text, confidence, engine) triple, or None
    source_type,         \* hybrid: source_type of the result
    questions,           \* questions of the ExtractionResult
    engine,              \* engine tag of the ExtractionResult
    calls,               \* calls made to each engine
    page_calls,          \* multimodal calls made for each page, in order
    error,               \* the error raised by extract ("" when none)
    refinement,          \* what the refinement call of the LLM returned (None when not called)
    job,                 \* the job row: exists, status, stage, percent, error_message
    set_row,             \* the set row: status, question_count
    question_rows,       \* the question rows persisted for the set
    store_calls,         \* calls made to complete_job and fail_job
    max_retries,         \* GeminiLLM.max_retries
    attempt,             \* the loop variable of _request_json
    http_attempts,       \* the urlopen calls made
    sleeps,              \* the time.sleep calls made, in tenths of a second
    last_failure,        \* how the last HTTP attempt failed (NoFailure when it did not)
    response_body,       \* the body read, None while there is none
    args,                \* arguments of a function called on its own
    result,              \* what that function returned
    pc                   \* position of the running call

plannerVars == <<pages, question_count, hints, planned>>
cropperVars == <<question_labels, canvas, ranges, starts_with_qno, picked_starts, tiers,
                 ocr_calls, storage, traces, raised>>
cropperState == <<question_labels, canvas, ranges, starts_with_qno, picked_starts, tiers,
                  ocr_calls, storage, traces>>
pipelineVars == <<extraction_mode, llm, ocr_fallback, document, page_idx, all_questions,
                  extracted, source_type, questions, engine, calls, page_calls, error,
                  refinement>>
pureVars == <<args, result>>
storeVars == <<job, set_row, question_rows, store_calls>>
requestVars == <<max_retries, attempt, http_attempts, sleeps, last_failure, response_body>>
vars == <<plannerVars, cropperVars, pipelineVars, pureVars, storeVars, requestVars, pc>>

-----------------------------------------------------------------------------
(* Python values *)

\* 1.0 in the fixed-point unit used for ratios.
RatioScale == 1000

Max(a, b) == IF a >= b THEN a ELSE b
Min(a, b) == IF a <= b THEN a ELSE b

\* A JSON value as found in a hint dict: absent/None, a non-numeric string, or
\* a number (v in units of 1/RatioScale, so 1500 is 1.5).
RawNone == [t |-> "none", v |-> 0]
RawText == [t |-> "text", v |-> 0]
RawNum(v) == [t |-> "num", v |-> v]
RawIntNum(n) == [t |-> "num", v |-> n * RatioScale]

\* int(x): raises for None and for a non-numeric string, truncates a number
\* toward zero.
PyIntRaises(raw) == raw.t # "num"
PyInt(raw) == IF raw.v >= 0 THEN raw.v \div RatioScale ELSE -((-raw.v) \div RatioScale)

\* float(x): raises for None and for a non-numeric string.
PyFloatRaises(raw) == raw.t # "num"
PyFloat(raw) == raw.v

\* max(0.0, min(1.0, r))
Clamp01(r) == Max(0, Min(RatioScale, r))

\* int(r * size) for a ratio r = n/d >= 0.
RatioToPx(n, d, size) == (n * size) \div d

\* A value-or-None.
None == [none |-> TRUE, val |-> <<>>]
Some(v) == [none |-> FALSE, val |-> v]

SeqRange(s) == {s[i] : i \in 1..Len(s)}


-----------------------------------------------------------------------------
(* QuestionCropper._ranges_from_page_hints *)

_MIN_CROP_PX == 60

\* left < 0.4 puts a hint with x ratios in the left column.
ColumnSplit == (4 * RatioScale) \div 10

\* 0.08 per unresolved question when a gap has no room, and the 0.001 floor
\* of a gap's span.
FallbackSpanPerItem == (8 * RatioScale) \div 100
MinFillSpan == RatioScale \div 1000

\* Lines 86-96: the hint is rejected (the whole plan returns None).
HintRejected(hint, numPages) ==
    \/ ~hint.isDict
    \/ PyIntRaises(hint.pageIndex)
    \/ PyInt(hint.pageIndex) < 1
    \/ PyInt(hint.pageIndex) > numPages

\* Lines 98-133: one parsed hint.
ParseHint(hint, idx) ==
    LET yRaises == PyFloatRaises(hint.topRatio) \/ PyFloatRaises(hint.bottomRatio)
        top     == IF yRaises THEN 0 ELSE Clamp01(PyFloat(hint.topRatio))
        bottom  == IF yRaises THEN 0 ELSE Clamp01(PyFloat(hint.bottomRatio))
        xRaises == PyFloatRaises(hint.leftRatio) \/ PyFloatRaises(hint.rightRatio)
        left    == IF xRaises THEN 0 ELSE Clamp01(PyFloat(hint.leftRatio))
        right   == IF xRaises THEN RatioScale ELSE Clamp01(PyFloat(hint.rightRatio))
    IN  [qidx      |-> idx,
         pageIndex |-> PyInt(hint.pageIndex),
         valid     |-> (~yRaises) /\ bottom > top,
         top       |-> top,
         bottom    |-> bottom,
         left      |-> left,
         right     |-> right,
         has_x     |-> (~xRaises) /\ right > left]

\* Lines 144-146: the inferred column of a parsed hint.
ColumnOf(item) ==
    IF item.has_x /\ item.left < ColumnSplit THEN "left"
    ELSE IF item.has_x /\ item.left >= ColumnSplit THEN "right"
    ELSE "full"

Columns == {"left", "right", "full"}

\* An entry of the per-page ratios list: None, or (top, bottom) held as the
\* fractions tn/td and bn/bd, with the entry of the sources list beside it.
NoRatio == [set |-> FALSE, tn |-> 0, td |-> 1, bn |-> 0, bd |-> 1, source |-> "fallback"]
RatioEntry(tn, td, bn, bd, source) ==
    [set |-> TRUE, tn |-> tn, td |-> td, bn |-> bn, bd |-> bd, source |-> source]

\* list.sort(key=top) is stable: x goes after every element whose key is <= its own.
RECURSIVE InsertByTop(_, _, _)
InsertByTop(sorted, x, locals) ==
    IF sorted = <<>> THEN <<x>>
    ELSE IF locals[Head(sorted)].top <= locals[x].top
         THEN <<Head(sorted)>> \o InsertByTop(Tail(sorted), x, locals)
         ELSE <<x>> \o sorted

RECURSIVE SortByTop(_, _)
SortByTop(idxs, locals) ==
    IF idxs = <<>> THEN <<>>
    ELSE InsertByTop(SortByTop(SubSeq(idxs, 1, Len(idxs) - 1), locals), idxs[Len(idxs)], locals)

\* Lines 143-147, 154: the local indexes of one column, sorted by top.
ColItems(locals, col) ==
    SortByTop(SelectSeq([i \in 1..Len(locals) |-> i], LAMBDA i : ColumnOf(locals[i]) = col), locals)

\* A walk that takes every valid hint as it is, whatever came before it.
RECURSIVE ReconcileColUnclamped(_, _, _, _)
ReconcileColUnclamped(colItems, prev_end, ratios, locals) ==
    IF colItems = <<>> THEN ratios
    ELSE LET li   == Head(colItems)
             item == locals[li]
         IN  IF ~item.valid
             THEN ReconcileColUnclamped(Tail(colItems), prev_end, ratios, locals)
             ELSE ReconcileColUnclamped(Tail(colItems), item.bottom,
                      [ratios EXCEPT ![li] = RatioEntry(item.top, RatioScale, item.bottom,
                                                        RatioScale, "gemini")],
                      locals)

\* Lines 155-165: walk one column, clamping each top to the previous bottom.
RECURSIVE ReconcileCol(_, _, _, _)
ReconcileCol(colItems, prev_end, ratios, locals) ==
    IF colItems = <<>> THEN ratios
    ELSE LET li     == Head(colItems)
             item   == locals[li]
             top    == Max(prev_end, item.top)
             bottom == item.bottom
         IN  IF ~item.valid \/ bottom <= top
             THEN ReconcileCol(Tail(colItems), prev_end, ratios, locals)
             ELSE ReconcileCol(Tail(colItems), bottom,
                      [ratios EXCEPT ![li] = RatioEntry(top, RatioScale, bottom, RatioScale, "gemini")],
                      locals)

\* Lines 150-165: every column reconciled (columns touch disjoint entries).
ReconcileAll(locals) ==
    LET r0 == [i \in 1..Len(locals) |-> NoRatio]
        r1 == ReconcileCol(ColItems(locals, "left"), 0, r0, locals)
        r2 == ReconcileCol(ColItems(locals, "right"), 0, r1, locals)
    IN  ReconcileCol(ColItems(locals, "full"), 0, r2, locals)

\* Lines 172-174: the end of the run of None entries that starts at cursor.
RECURSIVE RunEnd(_, _)
RunEnd(ratios, end) ==
    IF end <= Len(ratios) /\ ~ratios[end].set THEN RunEnd(ratios, end + 1) ELSE end

\* Lines 167-188: fill each run of None entries between its resolved neighbours
\* (or the page edges).  The neighbours of a maximal run are entries of the
\* reconcile step, whose denominators are RatioScale.
RECURSIVE FillGaps(_, _)
FillGaps(ratios, cursor) ==
    IF cursor > Len(ratios) THEN ratios
    ELSE IF ratios[cursor].set THEN FillGaps(ratios, cursor + 1)
    ELSE LET end    == RunEnd(ratios, cursor)
             n      == Max(1, end - cursor)
             left   == IF cursor > 1 /\ ratios[cursor - 1].set THEN ratios[cursor - 1].bn ELSE 0
             right0 == IF end <= Len(ratios) /\ ratios[end].set THEN ratios[end].tn ELSE RatioScale
             right  == IF right0 <= left
                       THEN Min(RatioScale, left + FallbackSpanPerItem * n)
                       ELSE right0
             span   == Max(MinFillSpan, right - left)
             filled == [i \in 1..Len(ratios) |->
                          IF i >= cursor /\ i < end
                          THEN RatioEntry(left * n + span * (i - cursor), n * RatioScale,
                                          left * n + span * (i - cursor + 1), n * RatioScale,
                                          "fallback")
                          ELSE ratios[i]]
         IN  FillGaps(filled, end)

\* A conversion that enforces no minimum size: y2 and x2 are the converted
\* bottom and right ratios as they are.
RegionPxNoMinimum(item, ratio, page_height, page_width) ==
    LET y1 == Max(0, Min(page_height - 1, RatioToPx(ratio.tn, ratio.td, page_height)))
        y2 == Min(page_height, RatioToPx(ratio.bn, ratio.bd, page_height))
        x1 == IF item.has_x
              THEN Max(0, Min(page_width - 1, RatioToPx(item.left, RatioScale, page_width)))
              ELSE 0
        x2 == IF item.has_x
              THEN Min(page_width, RatioToPx(item.right, RatioScale, page_width))
              ELSE page_width
    IN  [y1 |-> y1, y2 |-> y2, x1 |-> x1, x2 |-> x2, source |-> ratio.source]

\* Lines 190-208: one region (y1, y2, x1, x2, source) in pixels.
RegionPx(item, ratio, page_height, page_width) ==
    LET y1a == Max(0, Min(page_height - 1, RatioToPx(ratio.tn, ratio.td, page_height)))
        y2a == Max(y1a + 12, Min(page_height, RatioToPx(ratio.bn, ratio.bd, page_height)))
        expansion == (_MIN_CROP_PX - (y2a - y1a)) \div 2
        y1  == IF y2a - y1a < _MIN_CROP_PX THEN Max(0, y1a - expansion) ELSE y1a
        y2  == IF y2a - y1a < _MIN_CROP_PX THEN Min(page_height, y1 + _MIN_CROP_PX) ELSE y2a
        x1  == IF item.has_x
               THEN Max(0, Min(page_width - 1, RatioToPx(item.left, RatioScale, page_width)))
               ELSE 0
        x2  == IF item.has_x
               THEN Max(x1 + 12, Min(page_width, RatioToPx(item.right, RatioScale, page_width)))
               ELSE page_width
    IN  [y1 |-> y1, y2 |-> y2, x1 |-> x1, x2 |-> x2, source |-> ratio.source]

\* Lines 136-208: the regions of one page, keyed by qidx.
AssignedOnPage(parsed, page_index, page_heights, page_widths) ==
    LET locals == SelectSeq(parsed, LAMBDA item : item.pageIndex = page_index)
        ratios == FillGaps(ReconcileAll(locals), 1)
        page_height == Max(1, page_heights[page_index])
        page_width  == Max(1, page_widths[page_index])
    IN  [li \in 1..Len(locals) |->
            [qidx |-> locals[li].qidx,
             region |-> RegionPx(locals[li], ratios[li], page_height, page_width)]]

\* Lines 135-218: the planned list, in question order, of hints that all parsed.
PlanParsed(parsed, page_heights, page_widths) ==
    LET onPage == [p \in 1..Len(page_heights) |->
                      AssignedOnPage(parsed, p, page_heights, page_widths)]
        assigned(q) ==
            LET p == parsed[q].pageIndex
                a == CHOOSE a \in SeqRange(onPage[p]) : a.qidx = q
            IN  a.region
    IN  [q \in 1..Len(parsed) |->
            [page_zero |-> parsed[q].pageIndex - 1,
             y1 |-> assigned(q).y1, y2 |-> assigned(q).y2,
             x1 |-> assigned(q).x1, x2 |-> assigned(q).x2,
             source |-> assigned(q).source]]

\* A planner that plans the hints it can use and drops the others.
RangesFromPageHintsPartial(page_heights, page_widths, count, hintsArg) ==
    IF count <= 0 THEN Some(<<>>)
    ELSE IF page_heights = <<>> \/ hintsArg.none \/ hintsArg.val = <<>>
    THEN None
    ELSE LET usable == SelectSeq(SubSeq(hintsArg.val, 1, Min(count, Len(hintsArg.val))),
                                 LAMBDA h : ~HintRejected(h, Len(page_heights)))
         IN  IF usable = <<>> THEN None
             ELSE Some(PlanParsed([i \in 1..Len(usable) |-> ParseHint(usable[i], i)],
                                  page_heights, page_widths))

\* Lines 70-218.  hintsArg is None or Some(list); the result is None or
\* Some(list of [page_zero, y1, y2, x1, x2, source]) in question order.
RangesFromPageHints(page_heights, page_widths, count, hintsArg) ==
    IF count <= 0 THEN Some(<<>>)
    ELSE IF page_heights = <<>> \/ hintsArg.none \/ hintsArg.val = <<>>
            \/ Len(hintsArg.val) < count
    THEN None
    ELSE IF \E i \in 1..count : HintRejected(hintsArg.val[i], Len(page_heights))
    THEN None
    ELSE Some(PlanParsed([i \in 1..count |-> ParseHint(hintsArg.val[i], i)],
                         page_heights, page_widths))

-----------------------------------------------------------------------------
(* QuestionCropper._ranges_from_hints: the flattened-canvas tier *)

\* Lines 37-65: questions idx..count of the loop (idx is 1-based here), given
\* the ranges so far.
RECURSIVE RangesFromHintsLoop(_, _, _, _, _, _)
RangesFromHintsLoop(height, count, hintList, idx, last_end, acc) ==
    IF idx > count THEN Some(acc)
    ELSE IF idx > Len(hintList) THEN None
    ELSE LET hint == hintList[idx] IN
         IF ~hint.isDict THEN None
         ELSE IF PyFloatRaises(hint.topRatio) \/ PyFloatRaises(hint.bottomRatio) THEN None
         ELSE LET top    == Clamp01(PyFloat(hint.topRatio))
                  bottom == Clamp01(PyFloat(hint.bottomRatio))
                  y1     == Max(last_end, RatioToPx(top, RatioScale, height))
                  y2a    == RatioToPx(bottom, RatioScale, height)
                  y2b    == IF idx = count THEN Max(y2a, height) ELSE y2a
                  y2     == IF y2b <= y1 + 10 THEN Min(height, y1 + 30) ELSE y2b
              IN  IF bottom <= top THEN None
                  ELSE IF y2 <= y1 THEN None
                  ELSE RangesFromHintsLoop(height, count, hintList, idx + 1, y2,
                                           Append(acc, <<y1, y2>>))

\* A planner that plans the hints there are when the list is shorter than count.
RangesFromHintsShortList(height, count, hintsArg) ==
    IF height <= 0 \/ count <= 0 \/ hintsArg.none \/ hintsArg.val = <<>> THEN None
    ELSE RangesFromHintsLoop(height, Min(count, Len(hintsArg.val)), hintsArg.val, 1, 0, <<>>)

\* Lines 25-67.  The result is None or Some(list of <<y1, y2>>).
RangesFromHints(height, count, hintsArg) ==
    IF height <= 0 \/ count <= 0 \/ hintsArg.none \/ hintsArg.val = <<>> THEN None
    ELSE RangesFromHintsLoop(height, count, hintsArg.val, 1, 0, <<>>)

-----------------------------------------------------------------------------
(* QuestionCropper._normalize_ranges: banding *)

RECURSIVE InsertInt(_, _)
InsertInt(sorted, x) ==
    IF sorted = <<>> THEN <<x>>
    ELSE IF Head(sorted) <= x THEN <<Head(sorted)>> \o InsertInt(Tail(sorted), x)
    ELSE <<x>> \o sorted

\* sorted(list of int)
RECURSIVE SortInts(_)
SortInts(s) ==
    IF s = <<>> THEN <<>> ELSE InsertInt(SortInts(SubSeq(s, 1, Len(s) - 1)), s[Len(s)])

\* Lines 225-232: count equal bands.
UniformRanges(height, count) ==
    LET step == Max(1, height \div count)
    IN  [k \in 1..count |->
            <<(k - 1) * step,
              IF k = count THEN height ELSE Min(height, k * step)>>]

\* Lines 220-250.  starts is a list of y positions (<<>> for None or empty).
NormalizeRanges(height, count, starts) ==
    IF height <= 0 \/ count <= 0 THEN <<>>
    ELSE IF starts = <<>> THEN UniformRanges(height, count)
    ELSE LET clamped  == [i \in 1..Len(starts) |-> Max(0, Min(height - 1, starts[i]))]
             sorted   == SortInts(clamped)
             given    == SubSeq(sorted, 1, Min(count, Len(sorted)))
             remaining == count - Len(given)
             tail_base == given[Len(given)]
             gap      == Max(30, (height - tail_base) \div (remaining + 1))
             ordered  == [i \in 1..count |->
                             IF i <= Len(given) THEN given[i]
                             ELSE Min(height - 1, tail_base + gap * (i - Len(given)))]
         IN  [i \in 1..count |->
                 LET end == IF i < count THEN ordered[i + 1] ELSE height
                     y1  == Max(0, ordered[i] - 12)
                 IN  <<y1, Min(height, Max(y1 + 30, end - 6))>>]

-----------------------------------------------------------------------------
(* Question labels and anchors *)

\* A question label: None, a string that starts with a number, or a string
\* that does not.
LabelNone == [t |-> "none", n |-> 0]
LabelText == [t |-> "text", n |-> 0]
LabelNum(n) == [t |-> "num", n |-> n]

\* Lines 252-259: _parse_question_no; None for no label or no leading number.
ParseQuestionNo(label) == IF label.t = "num" THEN Some(label.n) ELSE None

\* The labels that parse, in order (lines 301-305).
RECURSIVE ParsedLabels(_)
ParsedLabels(labels) ==
    IF labels = <<>> THEN <<>>
    ELSE IF ParseQuestionNo(Head(labels)).none THEN ParsedLabels(Tail(labels))
    ELSE <<ParseQuestionNo(Head(labels)).val>> \o ParsedLabels(Tail(labels))

\* _is_label_sequence_reliable without the contiguity test of lines 317-318.
IsLabelSequenceAscending(labels) ==
    LET parsed == ParsedLabels(labels)
        deltas == [i \in 1..(Len(parsed) - 1) |-> parsed[i + 1] - parsed[i]]
    IN  /\ Len(parsed) >= 2
        /\ \A i \in 1..Len(deltas) : deltas[i] > 0

\* Lines 299-318: _is_label_sequence_reliable.
IsLabelSequenceReliable(labels) ==
    LET parsed == ParsedLabels(labels)
        deltas == [i \in 1..(Len(parsed) - 1) |-> parsed[i + 1] - parsed[i]]
        ones   == Cardinality({i \in 1..Len(deltas) : deltas[i] = 1})
    IN  /\ Len(parsed) >= 2
        /\ \A i \in 1..Len(deltas) : deltas[i] > 0
        /\ 10 * ones >= 6 * Len(deltas)

\* An anchor (y, qno); sorted() orders tuples by y, then by qno.
AnchorLeq(a, b) == a[1] < b[1] \/ (a[1] = b[1] /\ a[2] <= b[2])

RECURSIVE InsertAnchor(_, _)
InsertAnchor(sorted, x) ==
    IF sorted = <<>> THEN <<x>>
    ELSE IF AnchorLeq(Head(sorted), x) THEN <<Head(sorted)>> \o InsertAnchor(Tail(sorted), x)
    ELSE <<x>> \o sorted

RECURSIVE SortAnchors(_)
SortAnchors(s) ==
    IF s = <<>> THEN <<>> ELSE InsertAnchor(SortAnchors(SubSeq(s, 1, Len(s) - 1)), s[Len(s)])

\* The first position after cursor (0-based count of consumed entries) whose
\* y exceeds the last picked one, or 0 if there is none (lines 287-292).
RECURSIVE NextGreater(_, _, _)
NextGreater(y_list, cursor, picked) ==
    IF cursor >= Len(y_list) THEN 0
    ELSE IF picked = <<>> \/ y_list[cursor + 1] > picked[Len(picked)] THEN cursor + 1
    ELSE NextGreater(y_list, cursor + 1, picked)

\* Lines 280-295: the loop over the labels.  used is the set of positions of
\* ordered that by_qno has handed out (each deque pops from the left).
RECURSIVE PickLoop(_, _, _, _, _)
PickLoop(labels, ordered, used, cursor, picked) ==
    IF labels = <<>> THEN picked
    ELSE LET target == ParseQuestionNo(Head(labels))
             queued == IF target.none THEN {}
                       ELSE {i \in 1..Len(ordered) : ordered[i][2] = target.val /\ i \notin used}
         IN  IF queued # {}
             THEN LET i == CHOOSE i \in queued : \A j \in queued : i <= j
                  IN  PickLoop(Tail(labels), ordered, used \cup {i}, cursor,
                               Append(picked, ordered[i][1]))
             ELSE LET y_list == [i \in 1..Len(ordered) |-> ordered[i][1]]
                      pos    == NextGreater(y_list, cursor, picked)
                  IN  IF pos = 0
                      THEN PickLoop(Tail(labels), ordered, used, Len(y_list), picked)
                      ELSE PickLoop(Tail(labels), ordered, used, pos,
                                    Append(picked, y_list[pos]))

\* _pick_starts_for_questions without the by-number branch of lines 284-285:
\* every label takes the next detection lying after the last picked one.
PickStartsIgnoringNumbers(height, labels, detected_starts) ==
    IF detected_starts = <<>> THEN <<>>
    ELSE LET ordered == SortAnchors([i \in 1..Len(detected_starts) |->
                            <<Max(0, Min(height - 1, detected_starts[i][1])),
                              detected_starts[i][2]>>])
         IN  PickLoop([i \in 1..Len(labels) |-> LabelNone], ordered, {}, 0, <<>>)

\* Lines 261-297: _pick_starts_for_questions.
PickStartsForQuestions(height, labels, detected_starts) ==
    IF detected_starts = <<>> THEN <<>>
    ELSE LET ordered == SortAnchors([i \in 1..Len(detected_starts) |->
                            <<Max(0, Min(height - 1, detected_starts[i][1])),
                              detected_starts[i][2]>>])
         IN  PickLoop(labels, ordered, {}, 0, <<>>)

\* An OCR token: text is a bare question number qno (the pattern matched) or
\* not; bbox may be missing.
Token(matches, qno, hasBbox, x, y) ==
    [isDict |-> TRUE, matches |-> matches, qno |-> qno, hasBbox |-> hasBbox, x |-> x, y |-> y]

\* int(width * 0.33)
LeftGate(width) == (width * 33) \div 100

\* Lines 330-349: the (y, qno) candidates, in token order.
RECURSIVE CandidateStarts(_, _)
CandidateStarts(tokens, left_gate) ==
    IF tokens = <<>> THEN <<>>
    ELSE LET token == Head(tokens)
             rest  == CandidateStarts(Tail(tokens), left_gate)
         IN  IF /\ token.isDict /\ token.matches /\ token.hasBbox
                /\ token.x <= left_gate
                /\ token.qno > 0 /\ token.qno <= 200
             THEN <<<<token.y, token.qno>>>> \o rest
             ELSE rest

\* list.sort(key=y) is stable.
RECURSIVE InsertByY(_, _)
InsertByY(sorted, x) ==
    IF sorted = <<>> THEN <<x>>
    ELSE IF Head(sorted)[1] <= x[1] THEN <<Head(sorted)>> \o InsertByY(Tail(sorted), x)
    ELSE <<x>> \o sorted

RECURSIVE SortByY(_)
SortByY(s) ==
    IF s = <<>> THEN <<>> ELSE InsertByY(SortByY(SubSeq(s, 1, Len(s) - 1)), s[Len(s)])

\* Lines 351-357: drop an anchor closer than 18px to the last kept one.
RECURSIVE DedupStarts(_, _)
DedupStarts(starts, last_y) ==
    IF starts = <<>> THEN <<>>
    ELSE IF Head(starts)[1] - last_y < 18 THEN DedupStarts(Tail(starts), last_y)
    ELSE <<Head(starts)>> \o DedupStarts(Tail(starts), Head(starts)[1])

\* _starts_from_tokens without the filter of lines 351-357.
StartsFromTokensUnfiltered(tokens, width) ==
    IF width <= 0 \/ tokens = <<>> THEN <<>>
    ELSE SortByY(CandidateStarts(tokens, LeftGate(width)))

\* Lines 324-358: _starts_from_tokens.
StartsFromTokens(tokens, width) ==
    IF width <= 0 \/ tokens = <<>> THEN <<>>
    ELSE DedupStarts(SortByY(CandidateStarts(tokens, LeftGate(width))), -9999)

-----------------------------------------------------------------------------
(* Inputs of the region planner *)

MaxQuestions == 2

Page(h, w) == [height |-> h, width |-> w]

\* Rendered documents: one page, two pages of different heights, a page
\* shorter than the minimum crop height.
PageLayouts ==
    { <<Page(1000, 800)>>,
      <<Page(1000, 900), Page(800, 900)>>,
      <<Page(40, 800)>> }

page_heights_of(ps) == [i \in 1..Len(ps) |-> ps[i].height]
page_widths_of(ps) == [i \in 1..Len(ps) |-> ps[i].width]

Hint(pageIndex, top, bottom, left, right) ==
    [isDict |-> TRUE, pageIndex |-> pageIndex, topRatio |-> top, bottomRatio |-> bottom,
     leftRatio |-> left, rightRatio |-> right]

\* A list entry that is not a dict (None).
NonDictHint ==
    [isDict |-> FALSE, pageIndex |-> RawNone, topRatio |-> RawNone, bottomRatio |-> RawNone,
     leftRatio |-> RawNone, rightRatio |-> RawNone]

\* (topRatio, bottomRatio) pairs: absent, a normal span, a span overlapping
\* it, two adjacent tight spans, tight spans touching the bottom and the top
\* edge of the page.
YPairs ==
    { <<RawNone, RawNone>>,
      <<RawNum(100), RawNum(400)>>,
      <<RawNum(300), RawNum(600)>>,
      <<RawNum(500), RawNum(520)>>,
      <<RawNum(520), RawNum(540)>>,
      <<RawNum(990), RawNum(1000)>>,
      <<RawNum(0), RawNum(10)>> }

\* (leftRatio, rightRatio) pairs: absent, left column, right column.
XPairs ==
    { <<RawNone, RawNone>>,
      <<RawNum(0), RawNum(500)>>,
      <<RawNum(500), RawNum(1000)>> }

\* A hint for a narrow strip at the right edge of page p.
EdgeStripHint(p) == Hint(RawIntNum(p), RawNum(100), RawNum(400), RawNum(995), RawNum(1000))

\* pageIndex values: absent, a non-numeric string, 0, one past the last page,
\* the fraction 1.5, and every page of the document.
BadPageIndexes(numPages) ==
    { RawNone, RawText, RawIntNum(0), RawIntNum(numPages + 1) }
FractionalPageIndex == RawNum(RatioScale + RatioScale \div 2)

\* The fields after pageIndex are not read once pageIndex is rejected.
PlannerHints(numPages) ==
    {NonDictHint}
    \cup { Hint(pi, RawNum(100), RawNum(400), RawNone, RawNone) :
             pi \in BadPageIndexes(numPages) \cup {FractionalPageIndex} }
    \cup { Hint(RawIntNum(p), y[1], y[2], x[1], x[2]) :
             p \in 1..numPages, y \in YPairs, x \in XPairs }
    \cup { EdgeStripHint(p) : p \in 1..numPages }

HintLists(hintSet) ==
    UNION { [1..n -> hintSet] : n \in 0..MaxQuestions }

-----------------------------------------------------------------------------
(* State of create_and_store_with_trace before it has done anything *)

NoCalls == [secondary |-> 0, local |-> 0]

CropperIdle ==
    /\ question_labels = None
    /\ canvas = None
    /\ ranges = None
    /\ starts_with_qno = <<>>
    /\ picked_starts = <<>>
    /\ tiers = <<>>
    /\ ocr_calls = NoCalls
    /\ storage = <<>>
    /\ traces = None
    /\ raised = FALSE

NoEngineCalls ==
    [structured |-> 0, raw_text |-> 0, refine |-> 0, pdf_text |-> 0, ocr_port |-> 0,
     local_ocr |-> 0, utf8_decode |-> 0, ocr_fallback |-> 0]

PureIdle ==
    /\ args = <<>>
    /\ result = <<>>

\* No job is being processed.
NoJob == [exists |-> FALSE, status |-> "", stage |-> "", percent |-> 0, error_message |-> None]
NoSet == [status |-> "", question_count |-> 0]
NoStoreCalls == [complete_job |-> 0, fail_job |-> 0]

StoreIdle ==
    /\ job = NoJob
    /\ set_row = NoSet
    /\ question_rows = <<>>
    /\ store_calls = NoStoreCalls

\* How an HTTP attempt fails: an HTTPError with a status code, a URLError that
\* is or is not a timeout, a TimeoutError, or any other exception.
Failure(kind, code) == [kind |-> kind, code |-> code]
NoFailure == Failure("", 0)

\* No request to the Gemini API is being made.
RequestIdle ==
    /\ max_retries = 0
    /\ attempt = 0
    /\ http_attempts = 0
    /\ sleeps = <<>>
    /\ last_failure = NoFailure
    /\ response_body = None

PipelineIdle ==
    /\ extraction_mode = "hybrid"
    /\ llm = "none"
    /\ ocr_fallback = "mock"
    /\ document = [source_type |-> "binary", pages |-> 0, empty |-> TRUE, utf8 |-> None]
    /\ page_idx = 0
    /\ all_questions = <<>>
    /\ extracted = None
    /\ source_type = "binary"
    /\ questions = <<>>
    /\ engine = ""
    /\ calls = NoEngineCalls
    /\ page_calls = <<>>
    /\ error = ""
    /\ refinement = None

-----------------------------------------------------------------------------
(* _ranges_from_page_hints called on its own *)

InitPlanner ==
    /\ pages \in PageLayouts
    /\ question_count \in 1..MaxQuestions
    /\ hints \in {None} \cup { Some(h) : h \in HintLists(PlannerHints(Len(pages))) }
    /\ hints.none \/ Len(hints.val) <= question_count + 1
    /\ planned = None
    /\ CropperIdle
    /\ PipelineIdle
    /\ PureIdle
    /\ StoreIdle
    /\ RequestIdle
    /\ pc = "call"

\* planned = self._ranges_from_page_hints(...)
PlanPages ==
    /\ pc = "call"
    /\ planned' = RangesFromPageHints(page_heights_of(pages), page_widths_of(pages),
                                      question_count, hints)
    /\ pc' = "returned"
    /\ UNCHANGED <<pages, question_count, hints>>
    /\ UNCHANGED <<cropperVars, pipelineVars, pureVars, storeVars, requestVars>>

NextPlanner == PlanPages

SpecPlanner == InitPlanner /\ [][NextPlanner]_vars


-----------------------------------------------------------------------------
(* QuestionCropper._detect_question_starts *)

\* What the secondary OCR port does when called: usable is
\* _can_use_secondary_ocr(); extract raises, or returns a payload whose
\* "tokens" is a list or not.
SecondaryOcr(usable, raises, tokensIsList, tokens) ==
    [usable |-> usable, raises |-> raises, tokensIsList |-> tokensIsList, tokens |-> tokens]

\* What the local engine does: pytesseract importable or not, image_to_data
\* raises or returns tokens.
LocalOcr(available, raises, tokens) ==
    [available |-> available, raises |-> raises, tokens |-> tokens]

\* A detection in which the secondary port's exception is not caught.
DetectQuestionStartsUncaught(secondary, local, width) ==
    IF secondary.usable /\ secondary.raises
    THEN [raised |-> TRUE, starts |-> <<>>, calls |-> [secondary |-> 1, local |-> 0]]
    ELSE LET fromTokens == IF secondary.usable /\ secondary.tokensIsList
                           THEN StartsFromTokens(secondary.tokens, width) ELSE <<>>
             sec == IF secondary.usable THEN 1 ELSE 0
         IN  IF fromTokens # <<>>
             THEN [raised |-> FALSE, starts |-> fromTokens, calls |-> [secondary |-> sec, local |-> 0]]
             ELSE IF ~local.available \/ local.raises
             THEN [raised |-> FALSE, starts |-> <<>>,
                   calls |-> [secondary |-> sec, local |-> IF local.available THEN 1 ELSE 0]]
             ELSE [raised |-> FALSE, starts |-> StartsFromTokens(local.tokens, Max(1, width)),
                   calls |-> [secondary |-> sec, local |-> 1]]

\* Lines 416-475.  The secondary port's tokens are used when they yield an
\* anchor; an exception of the port is caught; then the local engine.
DetectQuestionStarts(secondary, local, width) ==
    LET fromTokens == IF secondary.usable /\ ~secondary.raises /\ secondary.tokensIsList
                      THEN StartsFromTokens(secondary.tokens, width) ELSE <<>>
        sec == IF secondary.usable THEN 1 ELSE 0
    IN  IF fromTokens # <<>>
        THEN [raised |-> FALSE, starts |-> fromTokens, calls |-> [secondary |-> sec, local |-> 0]]
        ELSE IF ~local.available \/ local.raises
        THEN [raised |-> FALSE, starts |-> <<>>,
              calls |-> [secondary |-> sec, local |-> IF local.available THEN 1 ELSE 0]]
        ELSE [raised |-> FALSE, starts |-> StartsFromTokens(local.tokens, Max(1, width)),
              calls |-> [secondary |-> sec, local |-> 1]]

-----------------------------------------------------------------------------
(* QuestionCropper._create_and_store_traces *)

\* A returned trace: url is None (saved = FALSE) or the url of the blob saved
\* under key q_<key>; pageIndex is only present in the per-page tier.
Trace(saved, key, cropSource, hasPageIndex, pageIndex) ==
    [saved |-> saved, key |-> key, cropSource |-> cropSource,
     hasPageIndex |-> hasPageIndex, pageIndex |-> pageIndex]

\* {"url": None, "cropSource": "fallback"}
FallbackTrace == Trace(FALSE, 0, "fallback", FALSE, 0)

\* Lines 520, 540.
FallbackTraces(count) == [i \in 1..count |-> FallbackTrace]

\* Per-page traces that report the zero-based page of the region.
PageTracesZeroBased(plan) ==
    [i \in 1..Len(plan) |->
        IF plan[i].y2 <= plan[i].y1
        THEN Trace(FALSE, 0, plan[i].source, TRUE, plan[i].page_zero)
        ELSE Trace(TRUE, i, plan[i].source, TRUE, plan[i].page_zero)]

\* Lines 506-516: the traces of a per-page plan.
PageTraces(plan) ==
    [i \in 1..Len(plan) |->
        IF plan[i].y2 <= plan[i].y1
        THEN Trace(FALSE, 0, plan[i].source, TRUE, plan[i].page_zero + 1)
        ELSE Trace(TRUE, i, plan[i].source, TRUE, plan[i].page_zero + 1)]

\* Lines 542-551: the traces of canvas ranges.
CanvasTraces(rs) ==
    [i \in 1..Len(rs) |->
        IF rs[i][2] <= rs[i][1] THEN FallbackTrace
        ELSE Trace(TRUE, i, "fallback", FALSE, 0)]

\* The keys saved for a list of traces, in order.
RECURSIVE SavedKeys(_)
SavedKeys(ts) ==
    IF ts = <<>> THEN <<>>
    ELSE IF Head(ts).saved THEN <<Head(ts).key>> \o SavedKeys(Tail(ts))
    ELSE SavedKeys(Tail(ts))

RECURSIVE SumHeights(_)
SumHeights(ps) == IF ps = <<>> THEN 0 ELSE Head(ps).height + SumHeights(Tail(ps))

RECURSIVE MaxWidth(_)
MaxWidth(ps) == IF ps = <<>> THEN 0 ELSE Max(Head(ps).width, MaxWidth(Tail(ps)))

\* Lines 398-414: _render_canvas; the pages pasted one under the other.
RenderCanvas(ps) ==
    IF ps = <<>> THEN None
    ELSE IF Len(ps) = 1 THEN Some(ps[1])
    ELSE Some(Page(SumHeights(ps), MaxWidth(ps)))

\* labels[:question_count]
FirstLabels(labels, count) == SubSeq(labels, 1, Min(count, Len(labels)))

\* The starts handed to banding if lines 530-535 ran whatever the labels are.
PickedStartsAlwaysByNumber(height, count, labelsArg, starts) ==
    LET labels == IF labelsArg.none \/ labelsArg.val = <<>>
                  THEN [i \in 1..count |-> LabelNone]
                  ELSE labelsArg.val
    IN  PickStartsForQuestions(height, FirstLabels(labels, count), starts)

\* Lines 529-537: the starts handed to banding.
PickedStarts(height, count, labelsArg, starts) ==
    LET labels == IF labelsArg.none \/ labelsArg.val = <<>>
                  THEN [i \in 1..count |-> LabelNone]
                  ELSE labelsArg.val
    IN  IF IsLabelSequenceReliable(FirstLabels(labels, count))
        THEN PickStartsForQuestions(height, FirstLabels(labels, count), starts)
        ELSE [i \in 1..Min(count, Len(starts)) |-> starts[i][1]]

\* Inputs of the whole call.
CropperLayouts ==
    { <<>>,
      <<Page(1000, 800)>>,
      <<Page(1000, 900), Page(800, 900)>> }

\* Hints: with a page and ratios; on the last page; ratios without a page;
\* a page without ratios; neither; not a dict.
CropperHints(numPages) ==
    { Hint(RawIntNum(1), RawNum(100), RawNum(400), RawNone, RawNone),
      Hint(RawIntNum(Max(1, numPages)), RawNum(500), RawNum(900), RawNone, RawNone),
      Hint(RawNone, RawNum(500), RawNum(900), RawNone, RawNone),
      Hint(RawIntNum(1), RawNone, RawNone, RawNone, RawNone),
      Hint(RawNone, RawNone, RawNone, RawNone, RawNone),
      NonDictHint }

LabelLists ==
    { None,
      Some(<<LabelNum(1), LabelNum(2), LabelNum(3), LabelNum(4)>>),
      Some(<<LabelNum(1), LabelNum(3), LabelNum(5), LabelNum(7)>>),
      Some(<<LabelNum(3), LabelNone>>) }

\* Token lists an OCR engine may return: none; four markers at the left
\* margin, one of them in the right column; markers closer than 18px.
TokenLists ==
    { <<>>,
      << Token(TRUE, 1, TRUE, 10, 100), Token(TRUE, 2, TRUE, 420, 220),
         Token(TRUE, 3, TRUE, 12, 380), Token(TRUE, 4, TRUE, 12, 540) >>,
      << Token(TRUE, 2, TRUE, 10, 640), Token(TRUE, 1, TRUE, 10, 100),
         Token(FALSE, 0, TRUE, 10, 300), Token(TRUE, 7, TRUE, 10, 110) >> }

SecondaryOcrBehaviours ==
    { SecondaryOcr(FALSE, FALSE, FALSE, <<>>),
      SecondaryOcr(TRUE, TRUE, FALSE, <<>>),
      SecondaryOcr(TRUE, FALSE, FALSE, <<>>) }
    \cup { SecondaryOcr(TRUE, FALSE, TRUE, t) : t \in TokenLists }

LocalOcrBehaviours ==
    { LocalOcr(FALSE, FALSE, <<>>), LocalOcr(TRUE, TRUE, <<>>) }
    \cup { LocalOcr(TRUE, FALSE, t) : t \in TokenLists }

Init ==
    /\ pages \in CropperLayouts
    /\ question_count \in 0..MaxQuestions
    /\ hints \in {None} \cup { Some(h) : h \in HintLists(CropperHints(Len(pages))) }
    /\ planned = None
    /\ question_labels \in LabelLists
    /\ canvas = None
    /\ ranges = None
    /\ starts_with_qno = <<>>
    /\ picked_starts = <<>>
    /\ tiers = <<>>
    /\ ocr_calls = NoCalls
    /\ storage = <<>>
    /\ traces = None
    /\ raised = FALSE
    /\ PipelineIdle
    /\ PureIdle
    /\ StoreIdle
    /\ RequestIdle
    /\ pc = "start"

\* Lines 494-495.
ReturnEmpty ==
    /\ pc = "start"
    /\ question_count <= 0
    /\ traces' = Some(<<>>)
    /\ pc' = "done"
    /\ UNCHANGED <<plannerVars, question_labels, canvas, ranges, starts_with_qno,
                   picked_starts, tiers, ocr_calls, storage, raised>>
    /\ UNCHANGED <<pipelineVars, pureVars, storeVars, requestVars>>

\* Lines 497-505: pages were rendered; the per-page hint plan is tried.
TryPageHints ==
    /\ pc = "start"
    /\ question_count > 0
    /\ pages # <<>>
    /\ planned' = RangesFromPageHints(page_heights_of(pages), page_widths_of(pages),
                                      question_count, hints)
    /\ tiers' = Append(tiers, "page_hints")
    /\ pc' = IF ~planned'.none /\ Len(planned'.val) = question_count
             THEN "crop_pages" ELSE "canvas"
    /\ UNCHANGED <<pages, question_count, hints, question_labels, canvas, ranges,
                   starts_with_qno, picked_starts, ocr_calls, storage, traces, raised>>
    /\ UNCHANGED <<pipelineVars, pureVars, storeVars, requestVars>>

\* Lines 497-498: no page was rendered; the per-page tier is skipped.
NoPagesRendered ==
    /\ pc = "start"
    /\ question_count > 0
    /\ pages = <<>>
    /\ pc' = "canvas"
    /\ UNCHANGED <<plannerVars, cropperVars, pipelineVars, pureVars, storeVars, requestVars>>

\* Lines 506-516: crop and save every planned region; return.
StorePageCrops ==
    /\ pc = "crop_pages"
    /\ traces' = Some(PageTraces(planned.val))
    /\ storage' = storage \o SavedKeys(PageTraces(planned.val))
    /\ pc' = "done"
    /\ UNCHANGED <<plannerVars, question_labels, canvas, ranges, starts_with_qno,
                   picked_starts, tiers, ocr_calls, raised>>
    /\ UNCHANGED <<pipelineVars, pureVars, storeVars, requestVars>>

\* Lines 518-520: the canvas; without one, every trace is a fallback trace.
BuildCanvas ==
    /\ pc = "canvas"
    /\ canvas' = RenderCanvas(pages)
    /\ IF canvas'.none
       THEN traces' = Some(FallbackTraces(question_count)) /\ pc' = "done"
       ELSE traces' = traces /\ pc' = "canvas_hints"
    /\ UNCHANGED <<plannerVars, question_labels, ranges, starts_with_qno, picked_starts,
                   tiers, ocr_calls, storage, raised>>
    /\ UNCHANGED <<pipelineVars, pureVars, storeVars, requestVars>>

\* Lines 522-527: the hint plan on the canvas.
TryCanvasHints ==
    /\ pc = "canvas_hints"
    /\ ranges' = RangesFromHints(canvas.val.height, question_count, hints)
    /\ tiers' = Append(tiers, "canvas_hints")
    /\ pc' = IF ranges'.none THEN "anchors" ELSE "crop_canvas"
    /\ UNCHANGED <<plannerVars, question_labels, canvas, starts_with_qno, picked_starts,
                   ocr_calls, storage, traces, raised>>
    /\ UNCHANGED <<pipelineVars, pureVars, storeVars, requestVars>>

\* Lines 528-538: anchor detection, then banding on the starts picked.
DetectAndBand ==
    /\ pc = "anchors"
    /\ \E secondary \in SecondaryOcrBehaviours, local \in LocalOcrBehaviours :
          LET det == DetectQuestionStarts(secondary, local, canvas.val.width)
              picked == PickedStarts(canvas.val.height, question_count, question_labels,
                                     det.starts)
          IN  /\ ocr_calls' = [secondary |-> ocr_calls.secondary + det.calls.secondary,
                               local |-> ocr_calls.local + det.calls.local]
              /\ tiers' = Append(tiers, "anchors")
              /\ IF det.raised
                 THEN /\ raised' = TRUE
                      /\ pc' = "done"
                      /\ UNCHANGED <<starts_with_qno, picked_starts, ranges>>
                 ELSE /\ raised' = FALSE
                      /\ starts_with_qno' = det.starts
                      /\ picked_starts' = picked
                      /\ ranges' = Some(NormalizeRanges(canvas.val.height, question_count, picked))
                      /\ pc' = "crop_canvas"
    /\ UNCHANGED <<plannerVars, question_labels, canvas, storage, traces>>
    /\ UNCHANGED <<pipelineVars, pureVars, storeVars, requestVars>>

\* Lines 539-551: crop and save every canvas range; return.
StoreCanvasCrops ==
    /\ pc = "crop_canvas"
    /\ traces' = IF ranges.val = <<>> THEN Some(FallbackTraces(question_count))
                 ELSE Some(CanvasTraces(ranges.val))
    /\ storage' = IF ranges.val = <<>> THEN storage
                  ELSE storage \o SavedKeys(CanvasTraces(ranges.val))
    /\ pc' = "done"
    /\ UNCHANGED <<plannerVars, question_labels, canvas, ranges, starts_with_qno,
                   picked_starts, tiers, ocr_calls, raised>>
    /\ UNCHANGED <<pipelineVars, pureVars, storeVars, requestVars>>

Next ==
    \/ ReturnEmpty
    \/ TryPageHints
    \/ NoPagesRendered
    \/ StorePageCrops
    \/ BuildCanvas
    \/ TryCanvasHints
    \/ DetectAndBand
    \/ StoreCanvasCrops

Spec == Init /\ [][Next]_vars

-----------------------------------------------------------------------------
(* Claims about _ranges_from_page_hints *)

Returned == pc = "returned"

IsIntegerRaw(raw) == raw.t = "num" /\ raw.v % RatioScale = 0

\* The hint is a dict with an integer pageIndex naming a page of the
\* document and numeric ratios with bottomRatio > topRatio.
ValidRatioHint(hint, numPages) ==
    /\ hint.isDict
    /\ IsIntegerRaw(hint.pageIndex)
    /\ hint.pageIndex.v \div RatioScale \in 1..numPages
    /\ hint.topRatio.t = "num" /\ hint.bottomRatio.t = "num"
    /\ hint.bottomRatio.v > hint.topRatio.v

C1_Pre ==
    /\ question_count >= 1
    /\ \A i \in 1..Len(pages) : pages[i].height >= 1 /\ pages[i].width >= 1
    /\ ~hints.none
    /\ Len(hints.val) >= question_count
    /\ \A i \in 1..question_count : ValidRatioHint(hints.val[i], Len(pages))

\* C1: for valid ratio hints (each of the first questionCount hints has an
\* integer pageIndex in range and bottomRatio > topRatio) the planner returns
\* a non-null list of exactly questionCount regions; region i, in input
\* order, lies on the page that hint i names and has y2 > y1.
C1_ValidHintsArePlanned ==
    (Returned /\ C1_Pre) =>
        /\ ~planned.none
        /\ Len(planned.val) = question_count
        /\ \A i \in 1..question_count :
              /\ planned.val[i].page_zero + 1 = hints.val[i].pageIndex.v \div RatioScale
              /\ planned.val[i].y2 > planned.val[i].y1

\* Two valid hints given in reverse page order (the first on page 2, the
\* second on page 1), planned.
C1_Witness ==
    /\ Returned /\ C1_Pre
    /\ question_count = 2
    /\ hints.val[1].pageIndex = RawIntNum(2)
    /\ hints.val[2].pageIndex = RawIntNum(1)
    /\ ~planned.none

\* C2: every returned region has a pixel height y2 - y1 of at least 60,
\* wherever its hint lies on the page, also when a hint tighter than 60px
\* touches the top or bottom edge (stated for pages at least 60px tall).
C2_MinCropHeight ==
    (Returned /\ ~planned.none) =>
        \A i \in 1..Len(planned.val) :
            pages[planned.val[i].page_zero + 1].height >= _MIN_CROP_PX
                => planned.val[i].y2 - planned.val[i].y1 >= _MIN_CROP_PX

\* The inferred column of question i of the call.
HintColumn(i) == ColumnOf(ParseHint(hints.val[i], i))

\* C3: two returned regions on the same page and in the same inferred column
\* have non-overlapping vertical pixel ranges [y1, y2), also after the 60px
\* minimum-height expansion (stated for pages tall enough to hold both
\* regions at the minimum height, and for two regions that both come from
\* their own hints).
C3_NoOverlapInColumn ==
    (Returned /\ ~planned.none) =>
        \A i, j \in 1..Len(planned.val) :
            (/\ i < j
             /\ planned.val[i].source = "gemini" /\ planned.val[j].source = "gemini"
             /\ planned.val[i].page_zero = planned.val[j].page_zero
             /\ HintColumn(i) = HintColumn(j)
             /\ pages[planned.val[i].page_zero + 1].height >= 2 * _MIN_CROP_PX)
            => \/ planned.val[i].y2 <= planned.val[j].y1
               \/ planned.val[j].y2 <= planned.val[i].y1

\* int() cannot convert the value (it is missing or not a number).
NotConvertible(raw) == raw.t \in {"none", "text"}

\* C4 as stated: the result is null whenever the hint list is missing or
\* shorter than questionCount, or one of the first questionCount hints is not
\* a dict or has a missing, non-integer or out-of-range pageIndex; a non-null
\* result has exactly questionCount regions.
C4_NullOnAnyNonIntegerPageIndex ==
    Returned =>
        /\ ( \/ hints.none
             \/ Len(hints.val) < question_count
             \/ \E i \in 1..Min(question_count, Len(hints.val)) :
                   \/ ~hints.val[i].isDict
                   \/ ~IsIntegerRaw(hints.val[i].pageIndex)
                   \/ hints.val[i].pageIndex.v \div RatioScale \notin 1..Len(pages) )
           => planned.none
        /\ ~planned.none => Len(planned.val) = question_count

\* C4 (amended): the result is null whenever the hint list is missing or
\* shorter than questionCount, or one of the first questionCount hints is not
\* a dict, has a pageIndex that int() cannot convert (missing, not a number),
\* or has one whose value truncated toward zero is outside 1..pageCount; a
\* non-null result has exactly questionCount regions.
C4_AllOrNothing ==
    Returned =>
        /\ ( \/ hints.none
             \/ Len(hints.val) < question_count
             \/ \E i \in 1..Min(question_count, Len(hints.val)) :
                   \/ ~hints.val[i].isDict
                   \/ NotConvertible(hints.val[i].pageIndex)
                   \/ hints.val[i].pageIndex.v \div RatioScale \notin 1..Len(pages) )
           => planned.none
        /\ ~planned.none => Len(planned.val) = question_count

\* A two-question call whose second hint has no usable pageIndex returned null.
C4_Witness ==
    /\ Returned
    /\ question_count = 2
    /\ ~hints.none /\ Len(hints.val) = 2
    /\ ~HintRejected(hints.val[1], Len(pages))
    /\ hints.val[2].isDict /\ NotConvertible(hints.val[2].pageIndex)
    /\ planned.none

-----------------------------------------------------------------------------
(* Claims about create_and_store_with_trace *)

CropperReturned == pc = "done" /\ question_count >= 1

TierOrder == <<"page_hints", "canvas_hints", "anchors">>

\* C5: for every questionCount >= 1 and every outcome of page rendering, hint
\* planning and anchor detection, create_and_store_with_trace returns exactly
\* questionCount traces in question order (a saved trace at position i is the
\* blob q_i) and never raises; when no page is rendered every trace is
\* {url: null, cropSource: "fallback"} and nothing is written to storage.
C5_ExactlyCountTracesNeverRaises ==
    /\ ~raised
    /\ CropperReturned =>
          /\ ~traces.none
          /\ Len(traces.val) = question_count
          /\ \A i \in 1..Len(traces.val) : traces.val[i].saved => traces.val[i].key = i
          /\ storage = SavedKeys(traces.val)
    /\ (CropperReturned /\ pages = <<>>) =>
          /\ \A i \in 1..Len(traces.val) : traces.val[i] = FallbackTrace
          /\ storage = <<>>

\* The call returned although the secondary OCR port was tried and the local
\* engine was tried after it, and the anchors found nothing.
C5_Witness ==
    /\ CropperReturned
    /\ question_count >= 2
    /\ ocr_calls = [secondary |-> 1, local |-> 1]
    /\ starts_with_qno = <<>>
    /\ Len(traces.val) = question_count
    /\ \A i \in 1..Len(traces.val) : traces.val[i].saved

\* C6: the tiers are tried in a fixed order: the per-page hint plan first, the
\* canvas hint plan only if the per-page plan returned null, anchor detection
\* and banding only if the canvas hint plan also returned null.  When the
\* per-page plan succeeds the OCR engines are never invoked and every trace
\* carries the cropSource and the 1-based pageIndex of its planned region.
C6_TierOrder ==
    /\ tiers = SubSeq(TierOrder, 1, Len(tiers))
    /\ Len(tiers) >= 2 => planned.none
    /\ pc = "anchors" => ranges.none
    /\ ocr_calls # NoCalls => tiers = TierOrder
    /\ (CropperReturned /\ ~planned.none) =>
          /\ tiers = <<"page_hints">>
          /\ ocr_calls = NoCalls
          /\ Len(traces.val) = Len(planned.val)
          /\ \A i \in 1..Len(traces.val) :
                /\ traces.val[i].cropSource = planned.val[i].source
                /\ traces.val[i].hasPageIndex
                /\ traces.val[i].pageIndex = planned.val[i].page_zero + 1

\* A per-page plan over two pages succeeded with a model-hinted region on the
\* second page and a filled one.
C6_Witness ==
    /\ CropperReturned
    /\ ~planned.none
    /\ Len(pages) = 2
    /\ \E i, j \in 1..Len(traces.val) :
          /\ traces.val[i].pageIndex = 2
          /\ traces.val[i].cropSource = "gemini"
          /\ traces.val[j].cropSource = "fallback"

-----------------------------------------------------------------------------
(* DocumentExtractionPipeline: texts and question records *)

\* A text is a sequence of non-blank lines.  A marker line starts with a
\* question number followed by '.', ')' or '번' and a space; the other kinds
\* are lines without a marker.
Marker(n) == [kind |-> "marker", num |-> n]
Body == [kind |-> "body", num |-> 0]
\* "[mock] OCR text", the text of the mock OCR port.
MockLine == [kind |-> "mock", num |-> 0]
\* Lines 403-406 and 408-411: the two user-facing placeholder messages.
PlaceholderNoResult == [kind |-> "placeholder_no_result", num |-> 0]
PlaceholderNoText == [kind |-> "placeholder_no_text", num |-> 0]

\* Confidences are integers in units of 1/ConfScale.
ConfScale == 1000
ClampConf(c) == Max(0, Min(ConfScale, c))

\* str(n) for n >= 0, as its sequence of decimal digits.
RECURSIVE StrOfInt(_)
StrOfInt(n) == IF n < 10 THEN <<n>> ELSE StrOfInt(n \div 10) \o <<n % 10>>

\* a < b for two strings of digits (Python compares strings lexicographically).
RECURSIVE StrLess(_, _)
StrLess(a, b) ==
    IF b = <<>> THEN FALSE
    ELSE IF a = <<>> THEN TRUE
    ELSE IF Head(a) # Head(b) THEN Head(a) < Head(b)
    ELSE StrLess(Tail(a), Tail(b))

\* Lines 131-137: positions of the markers kept from position i on; the first
\* marker is always kept, a later one only if its number exceeds last_num.
RECURSIVE ForwardMatches(_, _, _, _)
ForwardMatches(text, i, any_kept, last_num) ==
    IF i > Len(text) THEN <<>>
    ELSE IF text[i].kind = "marker" /\ (~any_kept \/ text[i].num > last_num)
    THEN <<i>> \o ForwardMatches(text, i + 1, TRUE, text[i].num)
    ELSE ForwardMatches(text, i + 1, any_kept, last_num)

\* A (number_label, chunk) pair; has_label is FALSE for (None, text).
SplitItem(has_label, number_label, text) ==
    [has_label |-> has_label, number_label |-> number_label, text |-> text]

\* _split_questions without the forward-moving filter of lines 133-137: every
\* marker opens a chunk.
SplitQuestionsEveryMarker(raw_text) ==
    LET matches == SelectSeq([i \in 1..Len(raw_text) |-> i],
                             LAMBDA i : raw_text[i].kind = "marker")
    IN  IF raw_text = <<>> THEN <<>>
        ELSE IF matches = <<>> THEN << SplitItem(FALSE, <<>>, raw_text) >>
        ELSE [k \in 1..Len(matches) |->
                SplitItem(TRUE, StrOfInt(raw_text[matches[k]].num),
                          SubSeq(raw_text, matches[k],
                                 IF k < Len(matches) THEN matches[k + 1] - 1
                                 ELSE Len(raw_text)))]

\* Lines 121-147: _split_questions.
SplitQuestions(raw_text) ==
    LET matches == ForwardMatches(raw_text, 1, FALSE, 0)
    IN  IF raw_text = <<>> THEN <<>>
        ELSE IF matches = <<>> THEN << SplitItem(FALSE, <<>>, raw_text) >>
        ELSE [k \in 1..Len(matches) |->
                SplitItem(TRUE, StrOfInt(raw_text[matches[k]].num),
                          SubSeq(raw_text, matches[k],
                                 IF k < Len(matches) THEN matches[k + 1] - 1
                                 ELSE Len(raw_text)))]

\* metadata["cropHint"]; ratios are integers in units of 1/HintScale (the code
\* rounds them to 5 decimals).
HintScale == 100000
NoCropHint ==
    [present |-> FALSE, topRatio |-> 0, bottomRatio |-> 0,
     hasLeft |-> FALSE, leftRatio |-> 0, rightRatio |-> 0]
CropHint(top, bottom) ==
    [present |-> TRUE, topRatio |-> top, bottomRatio |-> bottom,
     hasLeft |-> FALSE, leftRatio |-> 0, rightRatio |-> 0]
CropHintX(top, bottom, left, right) ==
    [present |-> TRUE, topRatio |-> top, bottomRatio |-> bottom,
     hasLeft |-> TRUE, leftRatio |-> left, rightRatio |-> right]

\* ExtractedQuestion, with the metadata keys the pipeline itself reads.
\* pageIndex 0 stands for a metadata without that key.
ExtractedQuestion(order_index, number_label, text, confidence, tag, pageIndex, cropHint, llmRefined) ==
    [order_index |-> order_index, number_label |-> number_label, text |-> text,
     confidence |-> confidence,
     metadata |-> [engine |-> tag, pageIndex |-> pageIndex, cropHint |-> cropHint,
                   llmRefined |-> llmRefined]]

\* Lines 869-889: the questions of the hybrid split.
HybridQuestions(split_items, base_confidence, tag) ==
    [idx \in 1..Len(split_items) |->
        ExtractedQuestion(idx,
                          IF split_items[idx].has_label THEN split_items[idx].number_label
                          ELSE StrOfInt(idx),
                          split_items[idx].text,
                          ClampConf(base_confidence - 10 * (idx - 1)),
                          tag, 0, NoCropHint, FALSE)]

\* Lines 512-537: the questions of a page's raw text.
RawTextQuestions(split_items, page_index) ==
    [idx \in 1..Len(split_items) |->
        ExtractedQuestion(idx,
                          IF split_items[idx].has_label THEN split_items[idx].number_label
                          ELSE StrOfInt(idx),
                          split_items[idx].text,
                          Max(550, 850 - 20 * (idx - 1)),
                          "gemini_vision_text", page_index, NoCropHint, TRUE)]

-----------------------------------------------------------------------------
(* DocumentExtractionPipeline._postprocess_crop_hints *)

\* round(n2 / 2, 5) for a ratio given as twice its value in units of 1/HintScale
\* (Python rounds a half to the even neighbour).
RoundHalf(n2) ==
    IF n2 % 2 = 0 THEN n2 \div 2
    ELSE IF ((n2 - 1) \div 2) % 2 = 0 THEN (n2 - 1) \div 2
    ELSE (n2 + 1) \div 2

\* _MIN_HEIGHT_RATIO = 0.05
MinHeightRatio == (5 * HintScale) \div 100

\* Lines 559-569: a hint with a positive span under 5% is widened around its middle.
ExpandHint(hint) ==
    LET height == hint.bottomRatio - hint.topRatio
        mid2   == hint.topRatio + hint.bottomRatio
    IN  IF hint.present /\ 0 < height /\ height < MinHeightRatio
        THEN [hint EXCEPT !.topRatio = Max(0, RoundHalf(mid2 - MinHeightRatio)),
                          !.bottomRatio = Min(HintScale, RoundHalf(mid2 + MinHeightRatio))]
        ELSE hint

WithHint(q, hint) == [q EXCEPT !.metadata.cropHint = hint]

\* Lines 540-548: _column_key.
ColumnKey(q) ==
    IF ~q.metadata.cropHint.present \/ ~q.metadata.cropHint.hasLeft THEN "full"
    ELSE IF q.metadata.cropHint.leftRatio < (4 * HintScale) \div 10 THEN "left"
    ELSE "right"

\* Line 576: the sort key; a question without a hint sorts as 0.
SortKeyTop(q) == IF q.metadata.cropHint.present THEN q.metadata.cropHint.topRatio ELSE 0

\* Line 578: list.sort is stable.
RECURSIVE InsertByHintTop(_, _)
InsertByHintTop(sorted, q) ==
    IF sorted = <<>> THEN <<q>>
    ELSE IF SortKeyTop(Head(sorted)) <= SortKeyTop(q)
    THEN <<Head(sorted)>> \o InsertByHintTop(Tail(sorted), q)
    ELSE <<q>> \o sorted

RECURSIVE SortByHintTop(_)
SortByHintTop(qs) ==
    IF qs = <<>> THEN <<>>
    ELSE InsertByHintTop(SortByHintTop(SubSeq(qs, 1, Len(qs) - 1)), qs[Len(qs)])

\* Lines 579-589: from pair (i-1, i) on, an overlap is split at its middle.
RECURSIVE SplitOverlaps(_, _)
SplitOverlaps(group, i) ==
    IF i > Len(group) THEN group
    ELSE LET prev_hint == group[i - 1].metadata.cropHint
             curr_hint == group[i].metadata.cropHint
             mid2      == prev_hint.bottomRatio + curr_hint.topRatio
         IN  IF prev_hint.present /\ curr_hint.present
                /\ curr_hint.topRatio < prev_hint.bottomRatio
             THEN SplitOverlaps(
                    [group EXCEPT ![i - 1] = WithHint(@, [prev_hint EXCEPT !.bottomRatio = RoundHalf(mid2)]),
                                  ![i]     = WithHint(@, [curr_hint EXCEPT !.topRatio = RoundHalf(mid2)])],
                    i + 1)
             ELSE SplitOverlaps(group, i + 1)

\* Lines 592-593.
Renumber(qs) == [idx \in 1..Len(qs) |-> [qs[idx] EXCEPT !.order_index = idx]]

\* A post-processing that leaves each question the order index it came with.
PostprocessCropHintsKeepIndexes(qs) ==
    LET expanded == [i \in 1..Len(qs) |-> WithHint(qs[i], ExpandHint(qs[i].metadata.cropHint))]
        group(key) == SplitOverlaps(SortByHintTop(SelectSeq(expanded, LAMBDA q : ColumnKey(q) = key)), 2)
    IN  group("full") \o group("left") \o group("right")

\* Lines 550-594.
PostprocessCropHints(qs) ==
    LET expanded == [i \in 1..Len(qs) |-> WithHint(qs[i], ExpandHint(qs[i].metadata.cropHint))]
        group(key) == SplitOverlaps(SortByHintTop(SelectSeq(expanded, LAMBDA q : ColumnKey(q) = key)), 2)
    IN  Renumber(group("full") \o group("left") \o group("right"))

-----------------------------------------------------------------------------
(* DocumentExtractionPipeline: multimodal extraction of one page *)

\* An item of the "questions" list of a structured response.  text <<>> is a
\* missing or blank text; numberLabel <<>> is a missing one.
Item(text, orderIndex, numberLabel, confidence, top, bottom, left, right) ==
    [isDict |-> TRUE, text |-> text, orderIndex |-> orderIndex, numberLabel |-> numberLabel,
     confidence |-> confidence, cropTopRatio |-> top, cropBottomRatio |-> bottom,
     cropLeftRatio |-> left, cropRightRatio |-> right]

NonDictItem ==
    [isDict |-> FALSE, text |-> <<>>, orderIndex |-> RawNone, numberLabel |-> <<>>,
     confidence |-> RawNone, cropTopRatio |-> RawNone, cropBottomRatio |-> RawNone,
     cropLeftRatio |-> RawNone, cropRightRatio |-> RawNone]

\* Lines 163-168: _to_int.
ToInt(value, default) == IF PyIntRaises(value) THEN default ELSE PyInt(value)

\* Lines 170-176: _to_confidence, default in units of 1/ConfScale.
ToConfidence(value, default) ==
    IF PyFloatRaises(value) THEN ClampConf(default)
    ELSE ClampConf((PyFloat(value) * ConfScale) \div RatioScale)

\* Lines 270-272, 673-675.
OrderIndexOf(item, idx) ==
    LET order_index == ToInt(item.orderIndex, idx)
    IN  IF order_index <= 0 THEN idx ELSE order_index

\* A ratio of RatioScale units rounded to 5 decimals, in HintScale units.
Round5(r) == (r * HintScale) \div RatioScale

\* Lines 693-716: the crop hint built from an item's ratios.
CropHintOf(item) ==
    IF PyFloatRaises(item.cropTopRatio) \/ PyFloatRaises(item.cropBottomRatio) THEN NoCropHint
    ELSE LET top_ratio    == Clamp01(PyFloat(item.cropTopRatio))
             bottom_ratio == Clamp01(PyFloat(item.cropBottomRatio))
         IN  IF bottom_ratio <= top_ratio THEN NoCropHint
             ELSE IF PyFloatRaises(item.cropLeftRatio) \/ PyFloatRaises(item.cropRightRatio)
             THEN CropHint(Round5(top_ratio), Round5(bottom_ratio))
             ELSE LET left_ratio  == Clamp01(PyFloat(item.cropLeftRatio))
                      right_ratio == Clamp01(PyFloat(item.cropRightRatio))
                  IN  IF right_ratio > left_ratio
                      THEN CropHintX(Round5(top_ratio), Round5(bottom_ratio),
                                     Round5(left_ratio), Round5(right_ratio))
                      ELSE CropHint(Round5(top_ratio), Round5(bottom_ratio))

\* Lines 665-728: the questions built from items idx.. of a structured response.
RECURSIVE MediaQuestions(_, _, _)
MediaQuestions(items, idx, page_index) ==
    IF idx > Len(items) THEN <<>>
    ELSE IF ~items[idx].isDict \/ items[idx].text = <<>>
    THEN MediaQuestions(items, idx + 1, page_index)
    ELSE LET order_index == OrderIndexOf(items[idx], idx)
         IN  << ExtractedQuestion(order_index,
                                  IF items[idx].numberLabel # <<>> THEN items[idx].numberLabel
                                  ELSE StrOfInt(order_index),
                                  items[idx].text,
                                  ToConfidence(items[idx].confidence, 900),
                                  "gemini_vision", page_index, CropHintOf(items[idx]), TRUE) >>
             \o MediaQuestions(items, idx + 1, page_index)

\* What generate_structured / generate_structured_from_media does: raises,
\* returns something that is not a dict, a dict whose "questions" is not a
\* list, or a dict with a list of items.
Response(kind, items) == [kind |-> kind, items |-> items]

\* A page that goes to the raw-text call only when the structured call raised.
NeedsRawTextOnlyOnRaise(response) == response.kind = "raises"

\* Lines 641-663: the structured call raised, or its question list is
\* missing, not a list or empty.
NeedsRawText(response) == response.kind # "items" \/ response.items = <<>>

\* How a structured response ends: the call raised; the question list is
\* missing, not a list or empty; the list has items but none is a dict with
\* text; or questions were built.
StructuredOutcome(response) ==
    IF response.kind = "raises" THEN "raised"
    ELSE IF response.kind # "items" \/ response.items = <<>> THEN "empty"
    ELSE IF \A i \in 1..Len(response.items) :
               ~response.items[i].isDict \/ response.items[i].text = <<>>
    THEN "no_usable_item"
    ELSE "questions"

\* An entry of the call log of a page.
Call(name, outcome) == [call |-> name, outcome |-> outcome]

\* What the raw-text call does: raises, or returns a rawText (<<>> when
\* missing or blank).
RawTextResponse(raises, rawText) == [raises |-> raises, rawText |-> rawText]

\* Lines 492-506: the raw-text call failed.
RawTextFails(response) == response.raises \/ response.rawText = <<>>

\* Sort key of lines 787-793.
MergeLeq(a, b) ==
    IF a.metadata.pageIndex # b.metadata.pageIndex THEN a.metadata.pageIndex < b.metadata.pageIndex
    ELSE IF a.order_index # b.order_index THEN a.order_index < b.order_index
    ELSE ~StrLess(b.number_label, a.number_label)

RECURSIVE InsertMerge(_, _)
InsertMerge(sorted, q) ==
    IF sorted = <<>> THEN <<q>>
    ELSE IF MergeLeq(Head(sorted), q) THEN <<Head(sorted)>> \o InsertMerge(Tail(sorted), q)
    ELSE <<q>> \o sorted

RECURSIVE SortMerge(_)
SortMerge(qs) ==
    IF qs = <<>> THEN <<>>
    ELSE InsertMerge(SortMerge(SubSeq(qs, 1, Len(qs) - 1)), qs[Len(qs)])

\* Lines 799-813.
GeminiEngineTag(kind, qs) ==
    LET engines == { qs[i].metadata.engine : i \in 1..Len(qs) }
    IN  IF kind = "pdf"
        THEN IF engines = {"gemini_vision"} THEN "gemini_vision_pages"
             ELSE IF engines = {"gemini_vision_text"} THEN "gemini_vision_text_pages"
             ELSE "gemini_vision_mixed"
        ELSE IF engines = {"gemini_vision"} THEN "gemini_vision"
             ELSE IF engines = {"gemini_vision_text"} THEN "gemini_vision_text"
             ELSE "gemini_vision_mixed"

\* Lines 178-188.
CanUseLlm(port) == port \notin {"none", "mock"}
CanUseMultimodalLlm(port) == port = "multimodal"

\* Lines 190-192.
CanUseSecondaryOcr(provider) == provider \notin {"", "mock"}

-----------------------------------------------------------------------------
(* DocumentExtractionPipeline: the hybrid text sources *)

\* The (text, confidence, engine) triple of an extraction.
Extracted(text, confidence, tag) == [text |-> text, confidence |-> confidence, engine |-> tag]

\* What ocr_fallback.extract does: raises, or returns a text (<<>> when missing
\* or blank) and a confidence (0 when missing).
OcrPortBehaviour(raises, text, confidence) ==
    [raises |-> raises, text |-> text, confidence |-> confidence]

\* What the local engine does: Pillow/pytesseract importable or not,
\* image_to_string raises or returns a text (<<>> when both tries are blank).
LocalEngineBehaviour(available, raises, text) ==
    [available |-> available, raises |-> raises, text |-> text]

\* Lines 194-207: _extract_with_secondary_ocr; calls counts the port calls.
ExtractWithSecondaryOcr(provider, port) ==
    IF ~CanUseSecondaryOcr(provider) THEN [result |-> None, calls |-> 0]
    ELSE IF port.raises \/ port.text = <<>> THEN [result |-> None, calls |-> 1]
    ELSE [result |-> Some(Extracted(port.text,
                                    ClampConf(IF port.confidence = 0 THEN 750 ELSE port.confidence),
                                    provider)),
          calls |-> 1]

\* _extract_image with the local engine tried before the secondary OCR.
ExtractImageLocalFirst(provider, port, local, retry) ==
    LET secondary == ExtractWithSecondaryOcr(provider, port)
    IN  IF local.available /\ ~local.raises /\ local.text # <<>>
        THEN [result |-> Some(Extracted(local.text, 820, "pytesseract")),
              ocr_port |-> 0, local_ocr |-> 1]
        ELSE [result |-> secondary.result, ocr_port |-> secondary.calls,
              local_ocr |-> IF local.available THEN 1 ELSE 0]

\* Lines 367-397: _extract_image.  port is what the OCR port does when it is
\* called first (line 372), retry what it does when it is called again after
\* the local engine gave nothing (lines 380, 394, 397).
ExtractImage(provider, port, local, retry) ==
    LET secondary == ExtractWithSecondaryOcr(provider, port)
        again     == ExtractWithSecondaryOcr(provider, retry)
    IN  IF ~secondary.result.none
        THEN [result |-> secondary.result, ocr_port |-> secondary.calls, local_ocr |-> 0]
        ELSE IF ~local.available
        THEN [result |-> again.result, ocr_port |-> secondary.calls + again.calls,
              local_ocr |-> 0]
        ELSE IF local.raises \/ local.text = <<>>
        THEN [result |-> again.result, ocr_port |-> secondary.calls + again.calls,
              local_ocr |-> 1]
        ELSE [result |-> Some(Extracted(local.text, 820, "pytesseract")),
              ocr_port |-> secondary.calls, local_ocr |-> 1]

\* What the PDF library does with the payload: it opens or not, the text
\* layer of the pages, and what OCR gives for each rendered page.
PdfBehaviour(opens, text_layer, page_ocr) ==
    [opens |-> opens, text_layer |-> text_layer, page_ocr |-> page_ocr]

\* Lines 321-330: OCR of the pages from page k on.
RECURSIVE PdfPageOcr(_, _, _)
PdfPageOcr(provider, page_ocr, k) ==
    IF k > Len(page_ocr) THEN [texts |-> <<>>, engines |-> <<>>, ocr_port |-> 0, local_ocr |-> 0]
    ELSE LET page == ExtractImage(provider, page_ocr[k].port, page_ocr[k].local, page_ocr[k].retry)
             rest == PdfPageOcr(provider, page_ocr, k + 1)
         IN  [texts     |-> IF page.result.none THEN rest.texts
                            ELSE page.result.val.text \o rest.texts,
              engines   |-> IF page.result.none THEN rest.engines
                            ELSE <<page.result.val.engine>> \o rest.engines,
              ocr_port  |-> page.ocr_port + rest.ocr_port,
              local_ocr |-> page.local_ocr + rest.local_ocr]

\* Lines 304-342: _extract_pdf.
ExtractPdf(provider, pdf) ==
    LET ocr == PdfPageOcr(provider, pdf.page_ocr, 1)
    IN  IF ~pdf.opens
        THEN [result |-> None, pdf_text |-> 0, ocr_port |-> 0, local_ocr |-> 0]
        ELSE IF pdf.text_layer # <<>>
        THEN [result |-> Some(Extracted(pdf.text_layer, 980, "pymupdf")),
              pdf_text |-> 1, ocr_port |-> 0, local_ocr |-> 0]
        ELSE [result |-> IF ocr.texts = <<>> THEN None
                         ELSE Some(Extracted(ocr.texts, 800, ocr.engines[1] \o "_pdf")),
              pdf_text |-> 1, ocr_port |-> ocr.ocr_port, local_ocr |-> ocr.local_ocr]

\* Lines 399-413: _extract_with_fallback on a call that returned.
ExtractWithFallback(port) ==
    Extracted(IF port.text = <<>> THEN <<PlaceholderNoText>>
              ELSE IF Head(port.text).kind = "mock" THEN <<PlaceholderNoResult>>
              ELSE port.text,
              IF port.confidence = 0 THEN 500 ELSE port.confidence,
              "ocr_fallback")

\* Line 217: the refinement call is made.
RefineCalled(port, raw_text, qs) == CanUseLlm(port) /\ raw_text # <<>> /\ qs # <<>>

\* Lines 261-296: the questions built from items idx.. of a refinement response.
RECURSIVE RefinedQuestions(_, _, _, _)
RefinedQuestions(items, idx, qs, tag) ==
    IF idx > Len(items) THEN <<>>
    ELSE IF ~items[idx].isDict \/ items[idx].text = <<>>
    THEN RefinedQuestions(items, idx + 1, qs, tag)
    ELSE LET seed == qs[Min(idx, Len(qs))]
             order_index == OrderIndexOf(items[idx], idx)
         IN  << [order_index  |-> order_index,
                 number_label |-> IF items[idx].numberLabel # <<>> THEN items[idx].numberLabel
                                  ELSE IF seed.number_label # <<>> THEN seed.number_label
                                  ELSE StrOfInt(order_index),
                 text         |-> items[idx].text,
                 confidence   |-> ToConfidence(items[idx].confidence, seed.confidence + 30),
                 metadata     |-> [seed.metadata EXCEPT !.engine = tag \o "+llm",
                                                        !.llmRefined = TRUE]] >>
             \o RefinedQuestions(items, idx + 1, qs, tag)

\* Sort key of line 301.
RefinedLeq(a, b) ==
    IF a.order_index # b.order_index THEN a.order_index < b.order_index
    ELSE ~StrLess(b.number_label, a.number_label)

RECURSIVE InsertRefined(_, _)
InsertRefined(sorted, q) ==
    IF sorted = <<>> THEN <<q>>
    ELSE IF RefinedLeq(Head(sorted), q) THEN <<Head(sorted)>> \o InsertRefined(Tail(sorted), q)
    ELSE <<q>> \o sorted

RECURSIVE SortRefined(_)
SortRefined(qs) ==
    IF qs = <<>> THEN <<>>
    ELSE InsertRefined(SortRefined(SubSeq(qs, 1, Len(qs) - 1)), qs[Len(qs)])

\* _refine_with_llm without the test of lines 298-299: a response none of
\* whose items is usable gives an empty list instead of None, and a raised
\* call counts as an answer.
RefineWithLlmUnchecked(port, response, raw_text, tag, qs) ==
    IF ~RefineCalled(port, raw_text, qs) THEN None
    ELSE IF response.kind # "items" THEN Some(qs)
    ELSE Some(SortRefined(RefinedQuestions(response.items, 1, qs, tag)))

\* Lines 209-302: _refine_with_llm; None, or the refined questions.
RefineWithLlm(port, response, raw_text, tag, qs) ==
    IF ~RefineCalled(port, raw_text, qs) THEN None
    ELSE IF response.kind # "items" \/ response.items = <<>> THEN None
    ELSE LET refined_questions == RefinedQuestions(response.items, 1, qs, tag)
         IN  IF refined_questions = <<>> THEN None
             ELSE Some(SortRefined(refined_questions))

-----------------------------------------------------------------------------
(* DocumentExtractionPipeline.extract *)

MaxItems == 2

\* Texts an engine may return: one unnumbered paragraph; two numbered
\* questions; three markers of which the second does not move forward.
Texts ==
    { <<Body>>,
      <<Marker(1), Body, Marker(2)>>,
      <<Marker(2), Marker(1), Marker(3)>> }

\* The uploaded document: its media type, the number of pages that render
\* (0 when the payload cannot be rendered or prepared), whether the payload is
\* empty, and its UTF-8 decoding (None when it is not valid UTF-8).
Document(kind, numPages, empty, utf8) ==
    [source_type |-> kind, pages |-> numPages, empty |-> empty, utf8 |-> utf8]

Documents ==
    { Document(kind, 0, TRUE, Some(<<>>)) : kind \in {"pdf", "image", "binary"} }
    \cup { Document("pdf", n, FALSE, None) : n \in 0..2 }
    \cup { Document("image", n, FALSE, None) : n \in 0..1 }
    \cup { Document("binary", 0, FALSE, utf8) : utf8 \in {None, Some(<<>>), Some(<<Marker(1), Body>>)} }
    \cup { Document("pdf", 0, FALSE, Some(<<Body>>)) }

\* Items of a structured page response: not a dict; blank text; a question
\* with its own index and a hint; one without an index and with a thin hint in
\* the left column that overlaps the former; one with a non-numeric confidence
\* in the right column.
MediaItems ==
    { NonDictItem,
      Item(<<>>, RawIntNum(1), <<>>, RawNone, RawNone, RawNone, RawNone, RawNone),
      Item(<<Marker(1), Body>>, RawIntNum(2), <<1>>, RawNum(950),
           RawNum(100), RawNum(400), RawNone, RawNone),
      Item(<<Marker(2)>>, RawNone, <<>>, RawNone,
           RawNum(300), RawNum(320), RawNum(0), RawNum(500)),
      Item(<<Marker(3)>>, RawIntNum(1), <<3>>, RawText,
           RawNum(50), RawNum(300), RawNum(500), RawNum(1000)) }

\* Items of a refinement response: not a dict; blank text; questions whose
\* orderIndex is 1, 3, 0 or missing.
RefineItems ==
    { NonDictItem,
      Item(<<>>, RawIntNum(1), <<>>, RawNone, RawNone, RawNone, RawNone, RawNone),
      Item(<<Marker(1), Body>>, RawIntNum(1), <<>>, RawNone, RawNone, RawNone, RawNone, RawNone),
      Item(<<Marker(2)>>, RawIntNum(3), <<7>>, RawNum(600), RawNone, RawNone, RawNone, RawNone),
      Item(<<Body>>, RawIntNum(0), <<>>, RawNone, RawNone, RawNone, RawNone, RawNone),
      Item(<<Marker(3)>>, RawNone, <<3>>, RawNone, RawNone, RawNone, RawNone, RawNone) }

ItemLists(itemSet) == UNION { [1..n -> itemSet] : n \in 0..MaxItems }

Responses(itemSet) ==
    { Response("raises", <<>>), Response("not_dict", <<>>), Response("no_list", <<>>) }
    \cup { Response("items", items) : items \in ItemLists(itemSet) }

RawTextResponses ==
    { RawTextResponse(TRUE, <<>>), RawTextResponse(FALSE, <<>>) }
    \cup { RawTextResponse(FALSE, text) : text \in Texts }

\* The mock port returns "[mock] OCR text" with confidence 0.91; any other
\* port may raise, return nothing, or return a text.
OcrPortBehaviours(provider) ==
    IF provider = "mock" THEN { OcrPortBehaviour(FALSE, <<MockLine>>, 910) }
    ELSE { OcrPortBehaviour(TRUE, <<>>, 0), OcrPortBehaviour(FALSE, <<>>, 0),
           OcrPortBehaviour(FALSE, <<Marker(1), Body, Marker(2)>>, 950) }

LocalEngineBehaviours ==
    { LocalEngineBehaviour(FALSE, FALSE, <<>>), LocalEngineBehaviour(TRUE, TRUE, <<>>),
      LocalEngineBehaviour(TRUE, FALSE, <<>>), LocalEngineBehaviour(TRUE, FALSE, <<Body>>) }

ImageBehaviours(provider) ==
    { [port |-> port, local |-> local, retry |-> retry] :
        port \in OcrPortBehaviours(provider), local \in LocalEngineBehaviours,
        retry \in OcrPortBehaviours(provider) }

PdfBehaviours(provider, numPages) ==
    { PdfBehaviour(FALSE, <<>>, <<>>) }
    \cup { PdfBehaviour(TRUE, text, <<>>) : text \in IF numPages = 0 THEN {<<>>} ELSE Texts }
    \cup { PdfBehaviour(TRUE, <<>>, page_ocr) : page_ocr \in [1..numPages -> ImageBehaviours(provider)] }

NoFormatResult == [result |-> None, pdf_text |-> 0, ocr_port |-> 0, local_ocr |-> 0]

\* Lines 845-850: the outcomes of the format-specific extraction.
FormatOutcomes(doc, provider) ==
    IF doc.source_type = "pdf"
    THEN { ExtractPdf(provider, pdf) : pdf \in PdfBehaviours(provider, doc.pages) }
    ELSE IF doc.source_type = "image"
    THEN { [result |-> r.result, pdf_text |-> 0, ocr_port |-> r.ocr_port, local_ocr |-> r.local_ocr] :
             r \in { ExtractImage(provider, b.port, b.local, b.retry) : b \in ImageBehaviours(provider) } }
    ELSE { NoFormatResult }

InitPipeline ==
    /\ pages = <<>>
    /\ question_count = 0
    /\ hints = None
    /\ planned = None
    /\ CropperIdle
    /\ extraction_mode \in {"gemini_full", "hybrid"}
    /\ llm \in {"none", "mock", "text", "multimodal"}
    /\ ocr_fallback \in {"mock", "google_vision"}
    /\ document \in Documents
    /\ page_idx = 0
    /\ all_questions = <<>>
    /\ extracted = None
    /\ source_type = "binary"
    /\ questions = <<>>
    /\ engine = ""
    /\ calls = NoEngineCalls
    /\ page_calls = <<>>
    /\ error = ""
    /\ refinement = None
    /\ PureIdle
    /\ StoreIdle
    /\ RequestIdle
    /\ pc = "extract"

\* A dispatch that never takes the gemini_full branch.
UsesGeminiFullNever(mode) == FALSE

\* Line 824.
UsesGeminiFull(mode) == mode = "gemini_full"

\* Lines 744-745, 751-754, 768-771, 781-782: why _extract_with_gemini_full
\* raises before any page is sent ("" when it does not).
GeminiStartFailure(port, doc) ==
    IF ~CanUseMultimodalLlm(port) THEN "gemini_full mode requires a multimodal LLM backend."
    ELSE IF doc.source_type = "pdf"
    THEN IF doc.pages = 0 THEN "gemini_page_extract_failed(page=0): could not render PDF pages."
         ELSE ""
    ELSE IF doc.source_type = "image"
    THEN IF doc.pages = 0 THEN "gemini_extract_failed(page=1): could not prepare image payload."
         ELSE ""
    ELSE "gemini_extract_failed: unsupported media type for gemini_full."

DigitChars == <<"0", "1", "2", "3", "4", "5", "6", "7", "8", "9">>

\* Line 765: {page_idx} in the f-string, the decimal digits of the number.
RECURSIVE FormatInt(_)
FormatInt(n) ==
    IF n < 10 THEN DigitChars[n + 1] ELSE FormatInt(n \div 10) \o DigitChars[(n % 10) + 1]

\* A page failure reported under the number of the page after it.
PageErrorNamingNextPage(doc, page, cause) ==
    IF doc.source_type = "pdf"
    THEN "gemini_page_extract_failed(page=" \o FormatInt(page + 1) \o "): " \o cause
    ELSE cause

\* Lines 764-765: a page failure of a PDF is wrapped with the number of the
\* page; that of an image is not.
PageError(doc, page, cause) ==
    IF doc.source_type = "pdf"
    THEN "gemini_page_extract_failed(page=" \o FormatInt(page) \o "): " \o cause
    ELSE cause

\* Lines 824-829, 744-782: gemini_full starts.
ExtractGeminiFull ==
    /\ pc = "extract"
    /\ UsesGeminiFull(extraction_mode)
    /\ LET failure == GeminiStartFailure(llm, document)
       IN  /\ error' = failure
           /\ raised' = (failure # "")
           /\ pc' = IF failure # "" THEN "done" ELSE "page"
           /\ page_idx' = IF failure # "" THEN page_idx ELSE 1
    /\ source_type' = document.source_type
    /\ UNCHANGED <<refinement, extraction_mode, llm, ocr_fallback, document, all_questions, extracted,
                   questions, engine, calls, page_calls>>
    /\ UNCHANGED <<plannerVars, cropperState, pureVars, storeVars, requestVars>>

\* Lines 632-663, 665-735: the structured call for the current page.
SendPage ==
    /\ pc = "page"
    /\ \E response \in Responses(MediaItems) :
          LET retry  == NeedsRawText(response)
              qs     == IF retry THEN <<>> ELSE MediaQuestions(response.items, 1, page_idx)
              failed == ~retry /\ qs = <<>>
              last   == page_idx >= document.pages
          IN  /\ calls' = [calls EXCEPT !.structured = @ + 1]
              /\ page_calls' = Append(page_calls, <<Call("structured", StructuredOutcome(response))>>)
              /\ all_questions' = IF retry \/ failed THEN all_questions
                                  ELSE all_questions \o PostprocessCropHints(qs)
              /\ pc' = IF retry THEN "raw_retry" ELSE IF failed THEN "done"
                       ELSE IF last THEN "merge" ELSE "page"
              /\ page_idx' = IF ~retry /\ ~failed /\ ~last THEN page_idx + 1 ELSE page_idx
              /\ raised' = failed
              /\ error' = IF failed
                          THEN PageError(document, page_idx, "structured extraction returned no valid question payloads.")
                          ELSE ""
    /\ UNCHANGED <<refinement, extraction_mode, llm, ocr_fallback, document, extracted, source_type,
                   questions, engine>>
    /\ UNCHANGED <<plannerVars, cropperState, pureVars, storeVars, requestVars>>

\* Lines 483, 502, 506, 649-653: the cause of a page whose raw-text call
\* fails too; the words of the underlying exception are left out.
RawTextFailure == "raw-text fallback failed"

\* Lines 474-538: the raw-text call for the current page.
RetryRawText ==
    /\ pc = "raw_retry"
    /\ \E response \in RawTextResponses :
          LET failed == RawTextFails(response)
              qs     == RawTextQuestions(SplitQuestions(response.rawText), page_idx)
              last   == page_idx >= document.pages
          IN  /\ calls' = [calls EXCEPT !.raw_text = @ + 1]
              /\ page_calls' = [page_calls EXCEPT ![Len(page_calls)] =
                                    Append(@, Call("raw_text", IF failed THEN "failed" ELSE "questions"))]
              /\ all_questions' = IF failed THEN all_questions ELSE all_questions \o qs
              /\ pc' = IF failed THEN "done" ELSE IF last THEN "merge" ELSE "page"
              /\ page_idx' = IF ~failed /\ ~last THEN page_idx + 1 ELSE page_idx
              /\ raised' = failed
              /\ error' = IF failed THEN PageError(document, page_idx, RawTextFailure) ELSE ""
    /\ UNCHANGED <<refinement, extraction_mode, llm, ocr_fallback, document, extracted, source_type,
                   questions, engine>>
    /\ UNCHANGED <<plannerVars, cropperState, pureVars, storeVars, requestVars>>

\* Lines 784-815, 830-837: the pages are merged and the result returned.
MergePages ==
    /\ pc = "merge"
    /\ questions' = IF all_questions = <<>> THEN questions
                    ELSE Renumber(SortMerge(all_questions))
    /\ engine' = IF all_questions = <<>> THEN engine
                 ELSE GeminiEngineTag(document.source_type, all_questions)
    /\ raised' = (all_questions = <<>>)
    /\ error' = IF all_questions = <<>> THEN "gemini_extract_failed: no questions extracted."
                ELSE ""
    /\ pc' = "done"
    /\ UNCHANGED <<refinement, extraction_mode, llm, ocr_fallback, document, page_idx, all_questions,
                   extracted, source_type, calls, page_calls>>
    /\ UNCHANGED <<plannerVars, cropperState, pureVars, storeVars, requestVars>>

\* Lines 839-850: hybrid starts with the format-specific extraction.
ExtractFormat ==
    /\ pc = "extract"
    /\ ~UsesGeminiFull(extraction_mode)
    /\ \E outcome \in FormatOutcomes(document, ocr_fallback) :
          /\ extracted' = outcome.result
          /\ calls' = [calls EXCEPT !.pdf_text = @ + outcome.pdf_text,
                                    !.ocr_port = @ + outcome.ocr_port,
                                    !.local_ocr = @ + outcome.local_ocr]
    /\ source_type' = document.source_type
    /\ pc' = "decode"
    /\ UNCHANGED <<refinement, extraction_mode, llm, ocr_fallback, document, page_idx, all_questions,
                   questions, engine, page_calls, error, raised>>
    /\ UNCHANGED <<plannerVars, cropperState, pureVars, storeVars, requestVars>>

\* Lines 852-859: UTF-8 decoding of the payload when nothing was extracted.
DecodeUtf8 ==
    /\ pc = "decode"
    /\ LET tried   == extracted.none /\ ~document.empty
           decoded == tried /\ ~document.utf8.none /\ document.utf8.val # <<>>
       IN  /\ calls' = [calls EXCEPT !.utf8_decode = @ + (IF tried THEN 1 ELSE 0)]
           /\ extracted' = IF decoded THEN Some(Extracted(document.utf8.val, 700, "utf8_decode"))
                           ELSE extracted
           /\ source_type' = IF decoded THEN "text" ELSE source_type
    /\ pc' = "fallback"
    /\ UNCHANGED <<refinement, extraction_mode, llm, ocr_fallback, document, page_idx, all_questions,
                   questions, engine, page_calls, error, raised>>
    /\ UNCHANGED <<plannerVars, cropperState, pureVars, storeVars, requestVars>>

\* Lines 861-862, 399-413: the OCR fallback port as last resort.  An
\* exception of the port is not caught.
OcrFallback ==
    /\ pc = "fallback"
    /\ \E port \in OcrPortBehaviours(ocr_fallback) :
          LET needed == extracted.none
              failed == needed /\ port.raises
          IN  /\ calls' = [calls EXCEPT !.ocr_fallback = @ + (IF needed THEN 1 ELSE 0)]
              /\ extracted' = IF needed /\ ~failed THEN Some(ExtractWithFallback(port))
                              ELSE extracted
              /\ raised' = failed
              /\ error' = IF failed THEN "ocr_fallback.extract raised" ELSE ""
              /\ pc' = IF failed THEN "done" ELSE "split"
    /\ UNCHANGED <<refinement, extraction_mode, llm, ocr_fallback, document, page_idx, all_questions,
                   source_type, questions, engine, page_calls>>
    /\ UNCHANGED <<plannerVars, cropperState, pureVars, storeVars, requestVars>>

\* Lines 864-889: the text is split into questions.
SplitText ==
    /\ pc = "split"
    /\ questions' = HybridQuestions(SplitQuestions(extracted.val.text),
                                    extracted.val.confidence, extracted.val.engine)
    /\ engine' = extracted.val.engine
    /\ pc' = "refine"
    /\ UNCHANGED <<refinement, extraction_mode, llm, ocr_fallback, document, page_idx, all_questions,
                   extracted, source_type, calls, page_calls, error, raised>>
    /\ UNCHANGED <<plannerVars, cropperState, pureVars, storeVars, requestVars>>

\* Lines 891-908: LLM refinement, and the result is returned.
RefineQuestions ==
    /\ pc = "refine"
    /\ \E response \in Responses(RefineItems) :
          LET refined == RefineWithLlm(llm, response, extracted.val.text, engine, questions)
          IN  /\ refinement' = IF RefineCalled(llm, extracted.val.text, questions)
                                THEN Some(response) ELSE None
              /\ calls' = [calls EXCEPT !.refine =
                              @ + (IF RefineCalled(llm, extracted.val.text, questions) THEN 1 ELSE 0)]
              /\ questions' = IF refined.none THEN questions ELSE refined.val
              /\ engine' = IF refined.none THEN engine ELSE engine \o "+llm"
    /\ pc' = "done"
    /\ UNCHANGED <<extraction_mode, llm, ocr_fallback, document, page_idx, all_questions,
                   extracted, source_type, page_calls, error, raised>>
    /\ UNCHANGED <<plannerVars, cropperState, pureVars, storeVars, requestVars>>

NextPipeline ==
    \/ ExtractGeminiFull
    \/ SendPage
    \/ RetryRawText
    \/ MergePages
    \/ ExtractFormat
    \/ DecodeUtf8
    \/ OcrFallback
    \/ SplitText
    \/ RefineQuestions

SpecPipeline == InitPipeline /\ [][NextPipeline]_vars

-----------------------------------------------------------------------------
(* Claims about DocumentExtractionPipeline.extract *)

ExtractReturned == pc = "done" /\ ~raised

GeminiEngineTags ==
    { "gemini_vision", "gemini_vision_text", "gemini_vision_mixed",
      "gemini_vision_pages", "gemini_vision_text_pages" }

\* C7: in gemini_full mode extract never degrades to the hybrid path: it makes
\* no call to the OCR port, the local OCR engine, the PDF text layer, UTF-8
\* decoding, the OCR fallback or the text refinement; it ends either with a
\* result of at least one question whose engine tag is a gemini_vision* tag,
\* or by raising an error without a result.
C7_GeminiFullNeverDegrades ==
    extraction_mode = "gemini_full" =>
        /\ calls.ocr_port = 0 /\ calls.local_ocr = 0 /\ calls.pdf_text = 0
        /\ calls.utf8_decode = 0 /\ calls.ocr_fallback = 0 /\ calls.refine = 0
        /\ extracted.none
        /\ pc \notin {"decode", "fallback", "split", "refine"}
        /\ pc = "done" =>
              \/ raised /\ error # "" /\ questions = <<>>
              \/ /\ ~raised
                 /\ Len(questions) >= 1
                 /\ engine \in GeminiEngineTags
                 /\ \A i \in 1..Len(questions) :
                       questions[i].metadata.engine \in {"gemini_vision", "gemini_vision_text"}

\* A two-page PDF returned questions of a structured page and of a raw-text page.
C7_Witness ==
    /\ extraction_mode = "gemini_full"
    /\ ExtractReturned
    /\ document.pages = 2
    /\ engine = "gemini_vision_mixed"
    /\ Len(questions) >= 3

\* The questions collected for page k.
PageQuestions(k) == SelectSeq(all_questions, LAMBDA q : q.metadata.pageIndex = k)

\* What holds of the call log of every page whatever the structured
\* response was: the structured call comes first and once, a raw-text call
\* comes at most once and after it, and the questions of a page that went
\* through the raw-text call are tagged gemini_vision_text.
PageCallsShape ==
    \A k \in 1..Len(page_calls) :
        /\ Len(page_calls[k]) \in 1..2
        /\ page_calls[k][1].call = "structured"
        /\ Len(page_calls[k]) = 2 =>
              /\ page_calls[k][2].call = "raw_text"
              /\ page_calls[k][1].outcome # "questions"
              /\ \A i \in 1..Len(PageQuestions(k)) :
                    PageQuestions(k)[i].metadata.engine = "gemini_vision_text"
              /\ page_calls[k][2].outcome = "questions" => PageQuestions(k) # <<>>
        /\ page_calls[k][1].outcome = "questions" => Len(page_calls[k]) = 1
        /\ calls.structured = Len(page_calls)

\* The raw-text call of page k was made, or is the next step.
RawTextRetried(k) ==
    \/ Len(page_calls[k]) = 2
    \/ k = Len(page_calls) /\ pc = "raw_retry"

\* C8 as stated: every structured response that raises or yields zero
\* questions is followed by exactly one raw-text call, and a page fails only
\* after that retry failed.
C8_RetryOnEveryZeroQuestionResponse ==
    /\ PageCallsShape
    /\ \A k \in 1..Len(page_calls) :
          page_calls[k][1].outcome \in {"raised", "empty", "no_usable_item"} => RawTextRetried(k)
    /\ (raised /\ page_calls # <<>>) =>
          /\ Len(page_calls[Len(page_calls)]) = 2
          /\ page_calls[Len(page_calls)][2].outcome = "failed"

\* C8: for each page the structured call is made exactly once; when it
\* raises, or its question list is missing, not a list or empty, exactly one
\* raw-text call follows and the page fails only if that call fails; when the
\* list has items but none is usable the page fails at once, without a
\* raw-text call.  At most two multimodal calls are made per page.
C8_RetryOnRaiseOrEmptyList ==
    /\ PageCallsShape
    /\ \A k \in 1..Len(page_calls) :
          /\ page_calls[k][1].outcome \in {"raised", "empty"} => RawTextRetried(k)
          /\ page_calls[k][1].outcome = "no_usable_item" =>
                /\ Len(page_calls[k]) = 1
                /\ k = Len(page_calls)
                /\ raised
    /\ (raised /\ page_calls # <<>>) =>
          \/ /\ Len(page_calls[Len(page_calls)]) = 2
             /\ page_calls[Len(page_calls)][2].outcome = "failed"
          \/ /\ Len(page_calls[Len(page_calls)]) = 1
             /\ page_calls[Len(page_calls)][1].outcome = "no_usable_item"

\* Page 1 was read through the raw-text call after an empty structured
\* response; page 2 failed on a response without a usable item.
C8_Witness ==
    /\ Len(page_calls) = 2
    /\ page_calls[1] = <<Call("structured", "empty"), Call("raw_text", "questions")>>
    /\ page_calls[2] = <<Call("structured", "no_usable_item")>>
    /\ raised

\* Page k failed its structured call and its raw-text call.
PageFailedBoth(k) ==
    /\ k <= Len(page_calls)
    /\ Len(page_calls[k]) = 2
    /\ page_calls[k][1].outcome # "questions"
    /\ page_calls[k][2] = Call("raw_text", "failed")

\* C24: in gemini_full mode on a PDF the k-th page sent is page k, one page
\* at a time; when page k fails its structured and its raw-text call, extract
\* raises one error naming page k, no later page is sent, and the questions
\* of the pages before k are not returned.
C24_PageFailureStopsPdf ==
    (extraction_mode = "gemini_full" /\ document.source_type = "pdf") =>
        /\ Len(page_calls) <= document.pages
        /\ pc = "page" => page_idx = Len(page_calls) + 1 /\ page_idx <= document.pages
        /\ pc = "raw_retry" => page_idx = Len(page_calls)
        /\ \A k \in 1..Len(page_calls) :
              /\ k < Len(page_calls) => page_calls[k][Len(page_calls[k])].outcome = "questions"
              /\ PageFailedBoth(k) =>
                    /\ pc = "done"
                    /\ raised
                    /\ error = "gemini_page_extract_failed(page=" \o FormatInt(k)
                                   \o "): raw-text fallback failed"
                    /\ page_idx = k
                    /\ Len(page_calls) = k
                    /\ questions = <<>>
                    /\ engine = ""
        /\ \A i \in 1..Len(all_questions) :
              all_questions[i].metadata.pageIndex \in 1..Len(page_calls)

\* Page 1 of a two-page PDF yielded questions; page 2 failed both calls: the
\* error names page 2 and the questions of page 1 are not returned.
C24_Witness ==
    /\ extraction_mode = "gemini_full"
    /\ document = Document("pdf", 2, FALSE, None)
    /\ Len(page_calls) = 2
    /\ page_calls[1][1].outcome = "questions"
    /\ PageQuestions(1) # <<>>
    /\ PageFailedBoth(2)
    /\ raised
    /\ questions = <<>>
    /\ error = "gemini_page_extract_failed(page=2): raw-text fallback failed"

\* The text of the result is one of the two placeholder messages.
NoEngineYieldedText ==
    /\ ~extracted.none
    /\ extracted.val.text \in { <<PlaceholderNoResult>>, <<PlaceholderNoText>> }

\* C9: in hybrid mode extract never raises and always returns at least one
\* question, whatever the engines do; when no engine yields text the single
\* question carries a placeholder message.
C9_HybridNeverRaises ==
    extraction_mode = "hybrid" =>
        /\ ~raised
        /\ pc = "done" =>
              /\ Len(questions) >= 1
              /\ NoEngineYieldedText =>
                    /\ Len(questions) = 1
                    /\ questions[1].text = extracted.val.text

\* C10: in every returned result the questions' order indexes are exactly
\* 1, 2, ..., N in list order.
C10_OrderIndexContiguous ==
    ExtractReturned => \A i \in 1..Len(questions) : questions[i].order_index = i

-----------------------------------------------------------------------------
(* Functions called on their own *)

\* Nothing else of the program runs while a function is called on its own.
ProgramIdle ==
    /\ pages = <<>>
    /\ question_count = 0
    /\ hints = None
    /\ planned = None
    /\ CropperIdle
    /\ PipelineIdle
    /\ StoreIdle
    /\ RequestIdle

-----------------------------------------------------------------------------
(* _postprocess_crop_hints called on its own *)

MaxHinted == 3

\* Crop hints as _extract_with_gemini_media builds them (0 <= top < bottom <= 1,
\* 5 decimals): wide, overlapping, nested, thin in the middle of the page,
\* thin at the bottom edge, and in the left and right column.
PostprocessHints ==
    { NoCropHint,
      CropHint(0, 60000), CropHint(40000, 90000), CropHint(0, 90000),
      CropHint(10000, 20000), CropHint(30000, 40000),
      CropHint(50000, 52000), CropHint(51000, 53000), CropHint(99000, 100000),
      CropHintX(0, 50000, 0, 50000), CropHintX(30000, 32000, 0, 50000),
      CropHintX(0, 50000, 50000, 100000) }

\* The i-th question of the input; its number label tells it from the others.
HintedQuestion(i, hint) ==
    ExtractedQuestion(i, StrOfInt(i), <<Marker(i)>>, 900, "gemini_vision", 1, hint, TRUE)

HintedQuestionLists ==
    UNION { { [i \in 1..n |-> HintedQuestion(i, hs[i])] : hs \in [1..n -> PostprocessHints] } :
            n \in 1..MaxHinted }

InitPostprocess ==
    /\ ProgramIdle
    /\ args \in HintedQuestionLists
    /\ result = <<>>
    /\ pc = "call"

CallPostprocess ==
    /\ pc = "call"
    /\ result' = PostprocessCropHints(args)
    /\ pc' = "returned"
    /\ UNCHANGED <<plannerVars, cropperVars, pipelineVars, storeVars, requestVars, args>>

NextPostprocess == CallPostprocess

SpecPostprocess == InitPostprocess /\ [][NextPostprocess]_vars

\* The returned question that was the i-th of the input.
ReturnedOf(i) == CHOOSE k \in 1..Len(result) : result[k].number_label = args[i].number_label

\* C11: after _postprocess_crop_hints every hint that entered with a positive
\* span is at least 0.05 tall, wherever it lies in [0,1] and also after the
\* overlap splitting.
C11_MinimumHintHeight ==
    pc = "returned" =>
        \A i \in 1..Len(args) :
            (args[i].metadata.cropHint.present
             /\ args[i].metadata.cropHint.bottomRatio > args[i].metadata.cropHint.topRatio) =>
                result[ReturnedOf(i)].metadata.cropHint.bottomRatio
                  - result[ReturnedOf(i)].metadata.cropHint.topRatio >= MinHeightRatio

\* C12: after _postprocess_crop_hints any two questions of the same column
\* group have non-overlapping hints: the one with the smaller topRatio has
\* bottomRatio <= the other's topRatio, whatever the nesting or overlap of the
\* incoming hints.
C12_NoOverlapInColumnGroup ==
    pc = "returned" =>
        \A k, l \in 1..Len(result) :
            (/\ ColumnKey(result[k]) = ColumnKey(result[l])
             /\ result[k].metadata.cropHint.present
             /\ result[l].metadata.cropHint.present
             /\ result[k].metadata.cropHint.topRatio < result[l].metadata.cropHint.topRatio) =>
                result[k].metadata.cropHint.bottomRatio <= result[l].metadata.cropHint.topRatio

\* full-width questions come first, then the left column, then the right one.
GroupRank(q) ==
    IF ColumnKey(q) = "full" THEN 1 ELSE IF ColumnKey(q) = "left" THEN 2 ELSE 3

\* The input question that was returned at position k.
InputOf(k) == CHOOSE i \in 1..Len(args) : args[i].number_label = result[k].number_label

\* The result has the questions of the input, each once, grouped full / left /
\* right, and the k-th has orderIndex k.
PermutationInGroups ==
    /\ Len(result) = Len(args)
    /\ \A i \in 1..Len(args) : \E k \in 1..Len(result) :
          /\ result[k].number_label = args[i].number_label
          /\ result[k].text = args[i].text
    /\ \A k, l \in 1..Len(result) :
          k < l => /\ result[k].number_label # result[l].number_label
                   /\ GroupRank(result[k]) <= GroupRank(result[l])
    /\ \A k \in 1..Len(result) : result[k].order_index = k

-----------------------------------------------------------------------------
(* DocumentExtractionPipeline._split_questions on its own *)

MaxLines == 4
MaxMarker == 3

\* Normalized texts of up to MaxLines non-blank lines, each a marker line with
\* a number in 0..MaxMarker or a line without a marker.
SplitLines == { Marker(n) : n \in 0..MaxMarker } \cup { Body }
SplitTexts == UNION { [1..n -> SplitLines] : n \in 0..MaxLines }

InitSplit ==
    /\ ProgramIdle
    /\ args \in SplitTexts
    /\ result = <<>>
    /\ pc = "call"

CallSplit ==
    /\ pc = "call"
    /\ result' = SplitQuestions(args)
    /\ pc' = "returned"
    /\ UNCHANGED <<plannerVars, cropperVars, pipelineVars, storeVars, requestVars, args>>

NextSplit == CallSplit

SpecSplit == InitSplit /\ [][NextSplit]_vars

\* int(label) for a label of decimal digits.
RECURSIVE IntOfStr(_)
IntOfStr(digits) ==
    IF digits = <<>> THEN 0
    ELSE 10 * IntOfStr(SubSeq(digits, 1, Len(digits) - 1)) + digits[Len(digits)]

\* The lines of the text from its first marker line on.
FromFirstMarker(text) ==
    IF \A i \in 1..Len(text) : text[i].kind # "marker" THEN <<>>
    ELSE SubSeq(text, CHOOSE i \in 1..Len(text) :
                          /\ text[i].kind = "marker"
                          /\ \A j \in 1..(i - 1) : text[j].kind # "marker",
                Len(text))

RECURSIVE ConcatChunks(_)
ConcatChunks(items) ==
    IF items = <<>> THEN <<>> ELSE Head(items).text \o ConcatChunks(Tail(items))

\* C14: when the text holds a question-number marker, every returned chunk is
\* labelled, the labels are strictly increasing numbers, each chunk starts at
\* the marker that carries its label, no marker inside a chunk has a number
\* above the chunk's own (a marker that does not move forward opens nothing,
\* one that does always opens a chunk), and the chunks laid end to end are the
\* text from its first marker to its end.
C14_SplitKeepsForwardMarkers ==
    (pc = "returned" /\ \E i \in 1..Len(args) : args[i].kind = "marker") =>
        /\ Len(result) >= 1
        /\ \A k \in 1..Len(result) :
              /\ result[k].has_label
              /\ result[k].text # <<>>
              /\ result[k].text[1] = Marker(IntOfStr(result[k].number_label))
              /\ \A j \in 2..Len(result[k].text) :
                    result[k].text[j].kind = "marker" =>
                        result[k].text[j].num <= IntOfStr(result[k].number_label)
        /\ \A k \in 1..(Len(result) - 1) :
              IntOfStr(result[k].number_label) < IntOfStr(result[k + 1].number_label)
        /\ ConcatChunks(result) = FromFirstMarker(args)

\* Question 1 holds a choice line "1) ..." and is followed by question 2.
C14_Witness ==
    /\ pc = "returned"
    /\ args = <<Marker(1), Marker(1), Body, Marker(2)>>
    /\ Len(result) = 2
    /\ result[1].text = <<Marker(1), Marker(1), Body>>
    /\ result[2].number_label = <<2>>

-----------------------------------------------------------------------------
(* DocumentExtractionPipeline._build_structure *)

\* A question text is a sequence of non-blank lines.  A choice line is a choice
\* symbol, a separator and a text; a bare line is a choice symbol with nothing
\* but white space after it (pad: at least two separator characters follow the
\* symbol, so that the pattern can capture white space on the line itself); a
\* stem line does not start with a choice symbol and separator.
ChoiceLine(sym) == [kind |-> "choice", sym |-> sym, pad |-> FALSE]
BareLine(sym, pad) == [kind |-> "bare", sym |-> sym, pad |-> pad]
StemLine == [kind |-> "stem", sym |-> "", pad |-> FALSE]

\* A match of _CHOICE_PATTERN: group(1).strip() is blank, or is the text part
\* of a choice line (whole = FALSE), or is a whole line (whole = TRUE).
ChoiceMatch(blank, whole, line) == [blank |-> blank, whole |-> whole, line |-> line]

\* A pattern whose white space after the symbol stops at the end of the line
\* ([ \t]* in place of \s*): a padded bare line matches with a blank group
\* wherever it stands, an unpadded one never matches.
RECURSIVE ChoiceMatchesWithinLine(_, _)
ChoiceMatchesWithinLine(question_text, i) ==
    IF i > Len(question_text) THEN <<>>
    ELSE LET line == question_text[i]
         IN  IF line.kind = "choice"
             THEN <<ChoiceMatch(FALSE, FALSE, line)>>
                      \o ChoiceMatchesWithinLine(question_text, i + 1)
             ELSE IF line.kind = "bare" /\ line.pad
             THEN <<ChoiceMatch(TRUE, FALSE, line)>>
                      \o ChoiceMatchesWithinLine(question_text, i + 1)
             ELSE ChoiceMatchesWithinLine(question_text, i + 1)

\* Line 14 and line 153: _CHOICE_PATTERN.finditer(question_text) from line i
\* on.  After the symbol and the separator, \s* is greedy and crosses line
\* ends, so a bare line that is not the last line captures the whole next line
\* and the scan resumes after it; a bare last line matches only when padded,
\* and then captures white space.
RECURSIVE ChoiceMatches(_, _)
ChoiceMatches(question_text, i) ==
    IF i > Len(question_text) THEN <<>>
    ELSE LET line == question_text[i]
         IN  IF line.kind = "choice"
             THEN <<ChoiceMatch(FALSE, FALSE, line)>>
                      \o ChoiceMatches(question_text, i + 1)
             ELSE IF line.kind = "bare" /\ i < Len(question_text)
             THEN <<ChoiceMatch(FALSE, TRUE, question_text[i + 1])>>
                      \o ChoiceMatches(question_text, i + 2)
             ELSE IF line.kind = "bare" /\ line.pad
             THEN <<ChoiceMatch(TRUE, FALSE, line)>>
             ELSE ChoiceMatches(question_text, i + 1)

\* Lines 151-155: the label is taken from the position among all matches, and
\* the matches with blank text are dropped afterwards.
RECURSIVE LabelledChoices(_, _)
LabelledChoices(matches, i) ==
    IF i > Len(matches) THEN <<>>
    ELSE IF matches[i].blank THEN LabelledChoices(matches, i + 1)
    ELSE <<[label |-> StrOfInt(i), text |-> matches[i]]>>
             \o LabelledChoices(matches, i + 1)

\* Lines 149-161: parsed_v1.choices of _build_structure.
BuildStructure(question_text) == LabelledChoices(ChoiceMatches(question_text, 1), 1)

ChoiceSymbols == {"circled", "latin"}
StructureLines ==
    { ChoiceLine(sym) : sym \in ChoiceSymbols }
    \cup { BareLine("circled", pad) : pad \in BOOLEAN }
    \cup { StemLine }
QuestionTexts == UNION { [1..n -> StructureLines] : n \in 0..MaxLines }

InitStructure ==
    /\ ProgramIdle
    /\ args \in QuestionTexts
    /\ result = <<>>
    /\ pc = "call"

CallStructure ==
    /\ pc = "call"
    /\ result' = BuildStructure(args)
    /\ pc' = "returned"
    /\ UNCHANGED <<plannerVars, cropperVars, pipelineVars, storeVars, requestVars, args>>

NextStructure == CallStructure

SpecStructure == InitStructure /\ [][NextStructure]_vars

\* C15: the returned choices are labelled "1", "2", ..., "n" in order, n being
\* the number of returned choices, and none of them has blank text.
C15_ChoiceLabelsContiguous ==
    pc = "returned" =>
        \A k \in 1..Len(result) :
            /\ result[k].label = StrOfInt(k)
            /\ ~result[k].text.blank

\* Two choices are returned, a bare line has captured the line after it, and
\* the match of the padded bare last line was discarded for its blank text.
C15_Witness ==
    /\ pc = "returned"
    /\ Len(args) = 4
    /\ args[2].kind = "bare"
    /\ args[4] = BareLine("circled", TRUE)
    /\ Len(ChoiceMatches(args, 1)) = 3
    /\ Len(result) = 2
    /\ result[2].text.whole

-----------------------------------------------------------------------------
(* QuestionCropper._pick_starts_for_questions on its own *)

MaxAnchors == 3
MaxPickLabels == 3

\* Detections (y, qno) on a canvas 1000 pixels high, one of them below it.
PickAnchors == { <<100, 1>>, <<250, 2>>, <<400, 3>>, <<250, 1>>, <<100, 2>>, <<1200, 1>> }
PickLabels == { LabelNum(1), LabelNum(3), LabelNone }
PickArgs ==
    { [height |-> 1000, question_labels |-> labels, detected_starts |-> detected] :
        labels \in UNION { [1..n -> PickLabels] : n \in 0..MaxPickLabels },
        detected \in UNION { [1..n -> PickAnchors] : n \in 0..MaxAnchors } }

InitPick ==
    /\ ProgramIdle
    /\ args \in PickArgs
    /\ result = <<>>
    /\ pc = "call"

CallPick ==
    /\ pc = "call"
    /\ result' = PickStartsForQuestions(args.height, args.question_labels, args.detected_starts)
    /\ pc' = "returned"
    /\ UNCHANGED <<plannerVars, cropperVars, pipelineVars, storeVars, requestVars, args>>

NextPick == CallPick

SpecPick == InitPick /\ [][NextPick]_vars

\* The number of detections carrying number qno.
Carrying(detected, qno) == {i \in 1..Len(detected) : detected[i][2] = qno}

\* The number of labels among the first k that parse to qno.
Asking(labels, k, qno) ==
    {j \in 1..k : ParseQuestionNo(labels[j]) = Some(qno)}

\* v is the y of the rank-th detection carrying qno, counted in ascending y,
\* y being read through the operator Y.
IsNthCarrying(detected, qno, rank, v, Y(_)) ==
    /\ \E i \in Carrying(detected, qno) : Y(detected[i][1]) = v
    /\ Cardinality({i \in Carrying(detected, qno) : Y(detected[i][1]) < v}) < rank
    /\ Cardinality({i \in Carrying(detected, qno) : Y(detected[i][1]) <= v}) >= rank

\* C16 as stated: when every label parses to a number that occurs among the
\* detections, the result has one entry per label, the k-th being the y of
\* the earliest detection carrying the k-th label's number that no earlier
\* label has consumed.
C16_PickByNumberWheneverNumbersOccur ==
    LET labels   == args.question_labels
        detected == args.detected_starts
    IN  (/\ pc = "returned"
         /\ \A k \in 1..Len(labels) :
               /\ ~ParseQuestionNo(labels[k]).none
               /\ Carrying(detected, ParseQuestionNo(labels[k]).val) # {})
        => /\ Len(result) = Len(labels)
           /\ \A k \in 1..Len(labels) :
                 LET qno == ParseQuestionNo(labels[k]).val
                 IN  IsNthCarrying(detected, qno, Cardinality(Asking(labels, k, qno)),
                                   result[k], LAMBDA y : y)

\* C16, amended: when every label parses to a number and each number is
\* carried by at least as many detections as there are labels asking for it,
\* the result has one entry per label, the k-th being the y, brought into
\* 0..height-1, of the earliest detection carrying the k-th label's number
\* that no earlier label has consumed.
C16_PickByNumberWhileDetectionsLast ==
    LET labels   == args.question_labels
        detected == args.detected_starts
    IN  (/\ pc = "returned"
         /\ \A k \in 1..Len(labels) :
               /\ ~ParseQuestionNo(labels[k]).none
               /\ Cardinality(Carrying(detected, ParseQuestionNo(labels[k]).val))
                     >= Cardinality(Asking(labels, Len(labels), ParseQuestionNo(labels[k]).val)))
        => /\ Len(result) = Len(labels)
           /\ \A k \in 1..Len(labels) :
                 LET qno == ParseQuestionNo(labels[k]).val
                 IN  IsNthCarrying(detected, qno, Cardinality(Asking(labels, k, qno)),
                                   result[k],
                                   LAMBDA y : Max(0, Min(args.height - 1, y)))

\* Labels 1 and 3 over detections numbered 1, 2, 3: the detection numbered 2
\* is skipped.
C16_Witness ==
    /\ pc = "returned"
    /\ args.question_labels = <<LabelNum(1), LabelNum(3)>>
    /\ args.detected_starts = << <<100, 1>>, <<250, 2>>, <<400, 3>> >>
    /\ result = <<100, 400>>

-----------------------------------------------------------------------------
(* QuestionCropper._is_label_sequence_reliable on its own *)

MaxReliableLabels == 4

\* Label lists: every list of up to MaxReliableLabels labels that are None,
\* non-numeric or a number in 1..5, and longer lists around the 60% mark
\* (three, two and four of five differences equal to 1).
ReliableLabels == { LabelNum(n) : n \in 1..5 } \cup { LabelNone, LabelText }
ReliableArgs ==
    UNION { [1..n -> ReliableLabels] : n \in 0..MaxReliableLabels }
    \cup { [i \in 1..6 |-> LabelNum(<<1, 2, 3, 4, 6, 8>>[i])],
           [i \in 1..6 |-> LabelNum(<<1, 2, 3, 5, 7, 9>>[i])],
           [i \in 1..6 |-> LabelNum(<<1, 2, 3, 4, 5, 9>>[i])],
           <<LabelNum(1), LabelNone, LabelNum(2), LabelText, LabelNum(3), LabelNum(4), LabelNum(6), LabelNum(8)>> }

InitReliable ==
    /\ ProgramIdle
    /\ args \in ReliableArgs
    /\ result = <<>>
    /\ pc = "call"

CallReliable ==
    /\ pc = "call"
    /\ result' = IsLabelSequenceReliable(args)
    /\ pc' = "returned"
    /\ UNCHANGED <<plannerVars, cropperVars, pipelineVars, storeVars, requestVars, args>>

NextReliable == CallReliable

SpecReliable == InitReliable /\ [][NextReliable]_vars

\* Positions of the labels that parse, and the pairs of such positions with
\* no parsing label between them.
ParsingAt(labels) == {i \in 1..Len(labels) : ~ParseQuestionNo(labels[i]).none}
ConsecutiveParsing(labels) ==
    { p \in ParsingAt(labels) \X ParsingAt(labels) :
        /\ p[1] < p[2]
        /\ \A k \in ParsingAt(labels) : ~(p[1] < k /\ k < p[2]) }
DifferenceAt(labels, p) ==
    ParseQuestionNo(labels[p[2]]).val - ParseQuestionNo(labels[p[1]]).val

\* C17: the function returns true exactly when at least two labels parse,
\* every difference between consecutive parsed numbers is positive and at
\* least 60% of these differences are 1; labels that do not parse are skipped.
C17_ReliableExactlyWhen ==
    pc = "returned" =>
        LET pairs == ConsecutiveParsing(args)
            ones  == {p \in pairs : DifferenceAt(args, p) = 1}
        IN  result = (/\ Cardinality(ParsingAt(args)) >= 2
                      /\ \A p \in pairs : DifferenceAt(args, p) > 0
                      /\ 100 * Cardinality(ones) >= 60 * Cardinality(pairs))

\* Exactly three of five differences are 1, with unparsed labels in between,
\* and the sequence is found reliable.
C17_Witness ==
    /\ pc = "returned"
    /\ Len(args) = 8
    /\ Cardinality(ConsecutiveParsing(args)) = 5
    /\ Cardinality({p \in ConsecutiveParsing(args) : DifferenceAt(args, p) = 1}) = 3
    /\ result = TRUE

-----------------------------------------------------------------------------
(* QuestionCropper.create_and_store_with_trace: the anchor tier *)

\* The anchor tier has run to its end: detection returned and banding was done.
AnchorTierBanded ==
    /\ pc \in {"crop_canvas", "done"}
    /\ Len(tiers) = Len(TierOrder)
    /\ ~raised

\* The first question_count labels are not a reliable sequence, or no labels
\* were given.
LabelsUnreliable ==
    \/ question_labels.none
    \/ question_labels.val = <<>>
    \/ ~IsLabelSequenceReliable(FirstLabels(question_labels.val, question_count))

\* C18: when the labels are unreliable or absent, the starts handed to banding
\* are the y of the first question_count detected anchors, in the ascending
\* order of detection, whatever numbers the anchors and the labels carry.
C18_UnreliableLabelsTakeDetectionOrder ==
    (AnchorTierBanded /\ LabelsUnreliable) =>
        /\ Len(picked_starts) = Min(question_count, Len(starts_with_qno))
        /\ \A i \in 1..Len(picked_starts) : picked_starts[i] = starts_with_qno[i][1]
        /\ \A i \in 1..(Len(picked_starts) - 1) : picked_starts[i] < picked_starts[i + 1]

\* Labels "3" and None over detections numbered 1, 3 and 4: the first two
\* detections are taken, although the second one carries the first label's
\* number.
C18_Witness ==
    /\ AnchorTierBanded
    /\ question_count = 2
    /\ question_labels = Some(<<LabelNum(3), LabelNone>>)
    /\ starts_with_qno = << <<100, 1>>, <<380, 3>>, <<540, 4>> >>
    /\ picked_starts = <<100, 380>>

-----------------------------------------------------------------------------
(* QuestionCropper._starts_from_tokens on its own, from the token texts *)

\* A token text is a sequence of characters: decimal digits, the delimiters
\* '.', ')' and '번' (written "beon"), a space, a tab and a letter.
IsDigit(c) == \E d \in 1..10 : DigitChars[d] = c
DigitValue(c) == (CHOOSE d \in 1..10 : DigitChars[d] = c) - 1
QnoDelimiters == {".", ")", "beon"}
IsWhitespace(c) == c \in {" ", "\t"}

\* str.strip()
RECURSIVE StripLeft(_)
StripLeft(text) ==
    IF text # <<>> /\ IsWhitespace(Head(text)) THEN StripLeft(Tail(text)) ELSE text
RECURSIVE StripRight(_)
StripRight(text) ==
    IF text # <<>> /\ IsWhitespace(text[Len(text)])
    THEN StripRight(SubSeq(text, 1, Len(text) - 1)) ELSE text

\* Line 333: str(text).strip().replace(" ", "")
CleanTokenText(text) == SelectSeq(StripRight(StripLeft(text)), LAMBDA c : c # " ")

\* The length of the run of digits (at most 3) that \d{1,3} takes at the
\* start of the text.
RECURSIVE DigitRun(_, _)
DigitRun(text, taken) ==
    IF taken < 3 /\ Len(text) > taken /\ IsDigit(text[taken + 1])
    THEN DigitRun(text, taken + 1) ELSE taken

\* Lines 10 and 334-338: _QNO_TOKEN.match(text); None when the text is empty
\* or does not match, else int(group(1)) as line 346 reads it.
QnoTokenMatch(text) ==
    LET digits == DigitRun(text, 0)
    IN  IF /\ digits >= 1
           /\ \/ Len(text) = digits
              \/ Len(text) = digits + 1 /\ text[digits + 1] \in QnoDelimiters
        THEN Some(IntOfStr([i \in 1..digits |-> DigitValue(text[i])]))
        ELSE None

\* A token as the OCR engine returns it: its text and the corner of its box.
OcrToken(isDict, text, hasBbox, x, y) ==
    [isDict |-> isDict, text |-> text, hasBbox |-> hasBbox, x |-> x, y |-> y]

\* The token as lines 331-346 read it.
ReadToken(token) ==
    LET matched == QnoTokenMatch(CleanTokenText(token.text))
    IN  [isDict |-> token.isDict, matches |-> ~matched.none,
         qno |-> IF matched.none THEN 0 ELSE matched.val,
         hasBbox |-> token.hasBbox, x |-> token.x, y |-> token.y]

MaxTokens == 3

OcrTokens ==
    { OcrToken(TRUE, <<"1">>, TRUE, 10, 100),
      OcrToken(TRUE, <<"2", ".">>, TRUE, 10, 110),
      OcrToken(TRUE, <<" ", "3", " ", ")">>, TRUE, 12, 118),
      OcrToken(TRUE, <<"1", " ", "2", "beon">>, TRUE, 33, 135),
      OcrToken(TRUE, <<"4">>, TRUE, 34, 300),
      OcrToken(TRUE, <<"5">>, TRUE, 331, 320),
      OcrToken(TRUE, <<"0">>, TRUE, 10, 400),
      OcrToken(TRUE, <<"2", "0", "1">>, TRUE, 10, 420),
      OcrToken(TRUE, <<"2", "0", "0", ")">>, TRUE, 10, 440),
      OcrToken(TRUE, <<"1", "2", "3", "4">>, TRUE, 10, 460),
      OcrToken(TRUE, <<"\t", "7">>, TRUE, 10, 100),
      OcrToken(TRUE, <<"1", "\t", ".">>, TRUE, 10, 480),
      OcrToken(TRUE, <<"6", "a">>, TRUE, 10, 500),
      OcrToken(TRUE, <<"8">>, FALSE, 0, 0),
      OcrToken(FALSE, <<"9">>, TRUE, 10, 520) }

StartsArgs ==
    { [tokens |-> tokens, width |-> width] :
        tokens \in UNION { [1..n -> OcrTokens] : n \in 0..MaxTokens },
        width \in {0, 101, 1000} }

InitStarts ==
    /\ ProgramIdle
    /\ args \in StartsArgs
    /\ result = <<>>
    /\ pc = "call"

CallStarts ==
    /\ pc = "call"
    /\ result' = StartsFromTokens([i \in 1..Len(args.tokens) |-> ReadToken(args.tokens[i])],
                                  args.width)
    /\ pc' = "returned"
    /\ UNCHANGED <<plannerVars, cropperVars, pipelineVars, storeVars, requestVars, args>>

NextStarts == CallStarts

SpecStarts == InitStarts /\ [][NextStarts]_vars

\* The text is one to three digits with an optional '.', ')' or '번'.
IsQnoText(text) ==
    \E n \in 1..3 :
        /\ Len(text) \in {n, n + 1}
        /\ \A i \in 1..n : IsDigit(text[i])
        /\ Len(text) = n + 1 => text[n + 1] \in QnoDelimiters

\* The number such a text starts with.
QnoOfText(text) ==
    LET digits == SelectSeq(text, IsDigit)
    IN  IntOfStr([i \in 1..Len(digits) |-> DigitValue(digits[i])])

\* The token yields the anchor (y, qno): its text, with the white space at its
\* ends and its spaces removed, is a question-number text and reads qno, qno is in
\* 1..200, and its box starts at y and not right of 33% of the width.
Yields(token, y, qno, width) ==
    LET text == SelectSeq(token.text, LAMBDA c : c # " ")
        bare == SelectSeq(text, LAMBDA c : ~IsWhitespace(c))
    IN  /\ token.isDict /\ token.hasBbox
        /\ IsQnoText(bare)
        /\ \A i \in 1..Len(text) : IsWhitespace(text[i]) =>
              \/ \A j \in 1..i : IsWhitespace(text[j])
              \/ \A j \in i..Len(text) : IsWhitespace(text[j])
        /\ QnoOfText(bare) = qno
        /\ qno >= 1 /\ qno <= 200
        /\ token.y = y
        /\ 100 * token.x <= 33 * width

\* C19: the returned anchors are ascending in y with consecutive anchors at
\* least 18px apart; every returned anchor comes from a token whose stripped
\* text is a question number in 1..200 and which lies within the left 33% of
\* the width; and every such token either is returned or lies less than 18px
\* below a returned anchor.
C19_StartsSortedSpacedAndGated ==
    pc = "returned" =>
        /\ \A k \in 1..(Len(result) - 1) : result[k + 1][1] - result[k][1] >= 18
        /\ \A k \in 1..Len(result) :
              \E i \in 1..Len(args.tokens) :
                  Yields(args.tokens[i], result[k][1], result[k][2], args.width)
        /\ \A i \in 1..Len(args.tokens) :
              Yields(args.tokens[i], args.tokens[i].y,
                     QnoOfText(SelectSeq(args.tokens[i].text, LAMBDA c : ~IsWhitespace(c))),
                     args.width) =>
                  \E k \in 1..Len(result) :
                      /\ result[k][1] <= args.tokens[i].y
                      /\ args.tokens[i].y - result[k][1] < 18

\* Three qualifying tokens 10px and 8px apart, given out of order: the first
\* and the third are returned, the second is dropped.
C19_Witness ==
    /\ pc = "returned"
    /\ args.width = 1000
    /\ args.tokens = << OcrToken(TRUE, <<" ", "3", " ", ")">>, TRUE, 12, 118),
                        OcrToken(TRUE, <<"2", ".">>, TRUE, 10, 110),
                        OcrToken(TRUE, <<"1">>, TRUE, 10, 100) >>
    /\ result = << <<100, 1>>, <<118, 3>> >>

-----------------------------------------------------------------------------
(* DocumentExtractionPipeline.extract: the hybrid text-source chain *)

\* The engine tag of the source whose text was taken ("" while there is none).
SourceTag == IF extracted.none THEN "" ELSE extracted.val.engine

\* No source after the format-specific extraction was consulted.
StoppedAtFormat == calls.utf8_decode = 0 /\ calls.ocr_fallback = 0

\* The secondary OCR was consulted if the document is an image and a
\* non-mock secondary OCR is configured.
SecondaryTriedOnImage ==
    (document.source_type = "image" /\ CanUseSecondaryOcr(ocr_fallback)) =>
        calls.ocr_port >= 1

\* C20: in hybrid mode the sources are consulted in the order PDF text layer,
\* per-page OCR (for a PDF) or secondary OCR, local engine (for an image),
\* UTF-8 decoding, OCR fallback; no source is consulted after the one whose
\* text was taken; the OCR fallback is reached only when the format-specific
\* extraction and the decoding yielded nothing; and the engine tag of the
\* result names the source taken, with "+llm" appended after a refinement.
C20_HybridSourceOrder ==
    ~UsesGeminiFull(extraction_mode) =>
        /\ SourceTag = "pymupdf" =>
              /\ document.source_type = "pdf" /\ calls.pdf_text = 1
              /\ calls.ocr_port = 0 /\ calls.local_ocr = 0
              /\ StoppedAtFormat
        /\ SourceTag \in {ocr_fallback \o "_pdf", "pytesseract_pdf"} =>
              /\ document.source_type = "pdf" /\ calls.pdf_text = 1
              /\ calls.ocr_port + calls.local_ocr >= 1
              /\ StoppedAtFormat
        /\ SourceTag = ocr_fallback =>
              /\ document.source_type = "image" /\ CanUseSecondaryOcr(ocr_fallback)
              /\ \/ calls.ocr_port = 1 /\ calls.local_ocr = 0
                 \/ calls.ocr_port = 2
              /\ StoppedAtFormat
        /\ SourceTag = "pytesseract" =>
              /\ document.source_type = "image" /\ calls.local_ocr = 1
              /\ CanUseSecondaryOcr(ocr_fallback) => calls.ocr_port = 1
              /\ StoppedAtFormat
        /\ SourceTag = "utf8_decode" =>
              /\ calls.utf8_decode = 1 /\ calls.ocr_fallback = 0
              /\ extracted.val.text = document.utf8.val
              /\ SecondaryTriedOnImage
        /\ calls.ocr_fallback > 0 =>
              /\ calls.ocr_fallback = 1
              /\ SourceTag \in {"", "ocr_fallback"}
              /\ document.empty \/ calls.utf8_decode = 1
              /\ SecondaryTriedOnImage
        /\ SourceTag = "ocr_fallback" => calls.ocr_fallback = 1
        /\ SourceTag \in {"", "pymupdf", ocr_fallback \o "_pdf", "pytesseract_pdf",
                          ocr_fallback, "pytesseract", "utf8_decode", "ocr_fallback"}
        /\ (pc = "done" /\ ~raised) => engine \in {SourceTag, SourceTag \o "+llm"}

\* A PDF without a usable text layer or page OCR whose bytes decode as UTF-8:
\* the PDF path was tried, the text comes from the decoding and the fallback
\* port was not consulted.
C20_Witness ==
    /\ extraction_mode = "hybrid"
    /\ pc = "done" /\ ~raised
    /\ document.source_type = "pdf"
    /\ SourceTag = "utf8_decode"
    /\ engine = "utf8_decode"
    /\ calls.utf8_decode = 1
    /\ calls.ocr_fallback = 0

-----------------------------------------------------------------------------
(* DocumentExtractionPipeline.extract: the LLM refinement *)

\* The questions of lines 869-889, before the refinement.
PreLlmSplit ==
    HybridQuestions(SplitQuestions(extracted.val.text), extracted.val.confidence,
                    extracted.val.engine)

\* The refinement call was made, returned, and its response holds at least
\* one item that is a dict with non-blank text.
RefinementUsable ==
    /\ ~refinement.none
    /\ refinement.val.kind = "items"
    /\ \E i \in 1..Len(refinement.val.items) :
          refinement.val.items[i].isDict /\ refinement.val.items[i].text # <<>>

\* C21: in hybrid mode the engine tag of the result ends with "+llm" exactly
\* when the refinement call succeeded with a usable question; the call is not
\* made when the LLM is missing or mock; and in every other case the
\* questions and the engine tag are those of the pre-LLM split.
C21_LlmSuffixIffRefined ==
    (~UsesGeminiFull(extraction_mode) /\ pc = "done" /\ ~raised) =>
        /\ engine \in {extracted.val.engine, extracted.val.engine \o "+llm"}
        /\ (engine = extracted.val.engine \o "+llm") <=> RefinementUsable
        /\ ~CanUseLlm(llm) => refinement.none /\ calls.refine = 0
        /\ ~RefinementUsable => questions = PreLlmSplit /\ engine = extracted.val.engine
        /\ RefinementUsable =>
              /\ Len(questions) >= 1
              /\ \A k \in 1..Len(questions) :
                    /\ questions[k].text # <<>>
                    /\ questions[k].metadata.llmRefined

\* A refinement response with one unusable and one usable item replaced the
\* two questions of the split by one, and the tag carries the suffix.
C21_Witness ==
    /\ extraction_mode = "hybrid" /\ pc = "done" /\ ~raised
    /\ RefinementUsable
    /\ Len(refinement.val.items) = 2
    /\ ~refinement.val.items[1].isDict
    /\ Len(PreLlmSplit) = 2
    /\ Len(questions) = 1
    /\ engine = extracted.val.engine \o "+llm"

-----------------------------------------------------------------------------
(* DocumentProcessingService.process_document *)

\* DatabaseStore.mark_job_running on an existing row.
MarkJobRunning(row, stage, percent) ==
    [row EXCEPT !.status = "running", !.stage = stage, !.percent = percent,
                !.error_message = None]

\* An exception message: its text and its length in characters.
ErrorMessage(text, len) == [text |-> text, len |-> len]

\* str(exc)[:400]
TruncatedMessage(message) == [message EXCEPT !.len = Min(@, 400)]

\* DatabaseStore.fail_job on an existing row, with the job row left in its
\* running stage.
FailJobRowKeepingStage(row, error_message) ==
    [row EXCEPT !.status = "failed", !.error_message = Some(error_message),
                !.percent = Min(@, 99)]

\* DatabaseStore.fail_job on an existing row: the job row.
FailJobRow(row, error_message) ==
    [row EXCEPT !.status = "failed", !.stage = "error",
                !.error_message = Some(error_message), !.percent = Min(@, 99)]

\* Lines 160-179 of services.py: the rows built from the extracted questions.
QuestionRows(qs) ==
    [i \in 1..Len(qs) |->
        [number_label  |-> qs[i].number_label,
         order_index   |-> qs[i].order_index,
         review_status |-> IF qs[i].confidence >= 900 THEN "auto_ok" ELSE "auto_flagged",
         confidence    |-> qs[i].confidence,
         ocr_text      |-> qs[i].text]]

\* Lines 209-213 of services.py.
SetStatus(rows) ==
    IF rows # <<>> /\ \A i \in 1..Len(rows) : rows[i].review_status = "auto_ok"
    THEN "ready" ELSE "needs_review"

\* Lengths of the message of an exception.
ErrorLengths == {40, 400, 1200}

InitService ==
    /\ pages = <<>>
    /\ question_count = 0
    /\ hints = None
    /\ planned = None
    /\ CropperIdle
    /\ extraction_mode \in {"gemini_full", "hybrid"}
    /\ llm \in {"none", "mock", "text", "multimodal"}
    /\ ocr_fallback \in {"mock", "google_vision"}
    /\ document \in Documents
    /\ page_idx = 0
    /\ all_questions = <<>>
    /\ extracted = None
    /\ source_type = "binary"
    /\ questions = <<>>
    /\ engine = ""
    /\ calls = NoEngineCalls
    /\ page_calls = <<>>
    /\ error = ""
    /\ refinement = None
    /\ PureIdle
    /\ RequestIdle
    /\ job \in { NoJob, [NoJob EXCEPT !.exists = TRUE, !.status = "queued", !.stage = "queued"] }
    /\ set_row = [status |-> "extracting", question_count |-> 0]
    /\ question_rows = <<>>
    /\ store_calls = NoStoreCalls
    /\ pc = "job_preprocess"

\* Lines 126-128 of services.py.
MarkPreprocess ==
    /\ pc = "job_preprocess"
    /\ IF job.exists
       THEN /\ job' = MarkJobRunning(job, "preprocess", 15)
            /\ pc' = IF UsesGeminiFull(extraction_mode) THEN "job_gemini" ELSE "job_layout"
       ELSE /\ job' = job
            /\ pc' = "job_returned"
    /\ UNCHANGED <<set_row, question_rows, store_calls>>
    /\ UNCHANGED <<plannerVars, cropperVars, pipelineVars, pureVars, requestVars>>

\* Lines 130-133.
MarkGeminiPageExtract ==
    /\ pc = "job_gemini"
    /\ job' = MarkJobRunning(job, "gemini_page_extract", 60)
    /\ pc' = "extract"
    /\ UNCHANGED <<set_row, question_rows, store_calls>>
    /\ UNCHANGED <<plannerVars, cropperVars, pipelineVars, pureVars, requestVars>>

\* Lines 135-137.
MarkLayout ==
    /\ pc = "job_layout"
    /\ job' = MarkJobRunning(job, "layout", 45)
    /\ pc' = "job_ocr"
    /\ UNCHANGED <<set_row, question_rows, store_calls>>
    /\ UNCHANGED <<plannerVars, cropperVars, pipelineVars, pureVars, requestVars>>

\* Lines 138-140.
MarkOcr ==
    /\ pc = "job_ocr"
    /\ job' = MarkJobRunning(job, "ocr", 75)
    /\ pc' = "extract"
    /\ UNCHANGED <<set_row, question_rows, store_calls>>
    /\ UNCHANGED <<plannerVars, cropperVars, pipelineVars, pureVars, requestVars>>

\* Lines 143-147: pipeline.extract runs.
RunExtract == job.exists /\ NextPipeline

\* Lines 221-222, extract having raised: fail_job with the truncated message.
FailJobOnExtractError ==
    /\ pc = "done"
    /\ job.exists
    /\ raised
    /\ \E len \in ErrorLengths :
          job' = FailJobRow(job, TruncatedMessage(ErrorMessage(error, len)))
    /\ set_row' = [set_row EXCEPT !.status = "error"]
    /\ store_calls' = [store_calls EXCEPT !.fail_job = @ + 1]
    /\ pc' = "job_finished"
    /\ UNCHANGED question_rows
    /\ UNCHANGED <<plannerVars, cropperVars, pipelineVars, pureVars, requestVars>>

\* Lines 149-155.
MarkSplit ==
    /\ pc = "done"
    /\ job.exists
    /\ ~raised
    /\ job' = IF UsesGeminiFull(extraction_mode) THEN MarkJobRunning(job, "merge", 82)
              ELSE MarkJobRunning(job, "split", 90)
    /\ pc' = "job_crop"
    /\ UNCHANGED <<set_row, question_rows, store_calls>>
    /\ UNCHANGED <<plannerVars, cropperVars, pipelineVars, pureVars, requestVars>>

\* Lines 178-183.
MarkCrop ==
    /\ pc = "job_crop"
    /\ job' = MarkJobRunning(job, "crop", 92)
    /\ pc' = "job_cropping"
    /\ UNCHANGED <<set_row, question_rows, store_calls>>
    /\ UNCHANGED <<plannerVars, cropperVars, pipelineVars, pureVars, requestVars>>

\* Lines 185-220 and store.py 147-194: the cropper returned its traces and
\* complete_job replaces the questions of the set.
CompleteJob ==
    /\ pc = "job_cropping"
    /\ job' = [job EXCEPT !.status = "done", !.stage = "completed", !.percent = 100,
                          !.error_message = None]
    /\ question_rows' = QuestionRows(questions)
    /\ set_row' = [status |-> SetStatus(QuestionRows(questions)),
                   question_count |-> Len(questions)]
    /\ store_calls' = [store_calls EXCEPT !.complete_job = @ + 1]
    /\ pc' = "job_finished"
    /\ UNCHANGED <<plannerVars, cropperVars, pipelineVars, pureVars, requestVars>>

\* Lines 185-196, 221-222: the cropper raised.
FailJobOnCropError ==
    /\ pc = "job_cropping"
    /\ \E len \in ErrorLengths :
          job' = FailJobRow(job, TruncatedMessage(ErrorMessage("create_and_store_with_trace raised", len)))
    /\ set_row' = [set_row EXCEPT !.status = "error"]
    /\ store_calls' = [store_calls EXCEPT !.fail_job = @ + 1]
    /\ pc' = "job_finished"
    /\ UNCHANGED question_rows
    /\ UNCHANGED <<plannerVars, cropperVars, pipelineVars, pureVars, requestVars>>

NextService ==
    \/ MarkPreprocess
    \/ MarkGeminiPageExtract
    \/ MarkLayout
    \/ MarkOcr
    \/ RunExtract
    \/ FailJobOnExtractError
    \/ MarkSplit
    \/ MarkCrop
    \/ CompleteJob
    \/ FailJobOnCropError

SpecService == InitService /\ [][NextService]_vars

\* C22: when extract raises during process_document, the job ends failed in
\* stage error with the error message cut to 400 characters, the set status
\* is error, complete_job is not called and no question is persisted; and
\* process_document does not stop before it has recorded the failure.
C22_ExtractErrorFailsJob ==
    /\ (pc = "job_finished" /\ raised) =>
          /\ job.status = "failed"
          /\ job.stage = "error"
          /\ ~job.error_message.none
          /\ job.error_message.val.text = error
          /\ job.error_message.val.len <= 400
          /\ job.percent <= 99
          /\ set_row.status = "error"
          /\ store_calls = [complete_job |-> 0, fail_job |-> 1]
          /\ question_rows = <<>>
    /\ raised => pc \in {"done", "job_finished"}
    /\ (raised /\ pc = "done") => job.status = "running" /\ store_calls = NoStoreCalls

\* gemini_full without a multimodal LLM backend: the job has failed with that
\* message.
C22_Witness ==
    /\ pc = "job_finished"
    /\ raised
    /\ extraction_mode = "gemini_full"
    /\ llm = "mock"
    /\ job.status = "failed"
    /\ job.error_message.val.text = "gemini_full mode requires a multimodal LLM backend."
    /\ job.error_message.val.len = 400

-----------------------------------------------------------------------------
(* GeminiLLM._request_json *)

MaxRetries == 6

\* Line 96: _is_retryable_http.
IsRetryableHttp(status_code) == status_code \in {408, 429, 500, 502, 503, 504}

\* Lines 180, 185, 190: the failure is one the loop retries after.
IsRetryable(f) ==
    \/ f.kind = "http" /\ IsRetryableHttp(f.code)
    \/ f.kind = "url_timeout"
    \/ f.kind = "timeout"

\* A sleep growing without a cap.
BackoffUncapped(n) == 12 * (n + 1)

\* Lines 181, 186, 191: min(6.0, 1.2 * (attempt + 1)), in tenths of a second.
Backoff(n) == Min(60, 12 * (n + 1))

\* What an attempt can fail with.
Failures ==
    { Failure("http", code) : code \in {400, 404, 408, 429, 500, 502, 503, 504} }
    \cup { Failure("url_timeout", 0), Failure("url", 0), Failure("timeout", 0),
           Failure("other", 0) }

\* What a response body can hold: a JSON object as text of the first part of
\* the first candidate, or something that lines 204-221 reject.
Bodies ==
    { "json_object", "not_json", "no_candidates", "no_parts", "no_text",
      "text_not_json", "text_not_object" }

InitRequest ==
    /\ pages = <<>>
    /\ question_count = 0
    /\ hints = None
    /\ planned = None
    /\ CropperIdle
    /\ PipelineIdle
    /\ PureIdle
    /\ StoreIdle
    /\ max_retries \in 0..MaxRetries
    /\ attempt = 0
    /\ http_attempts = 0
    /\ sleeps = <<>>
    /\ last_failure = NoFailure
    /\ response_body = None
    /\ pc = "request"

\* Lines 169-173: an attempt whose response is read.
AttemptSucceeds ==
    /\ pc = "request"
    /\ attempt <= max_retries
    /\ http_attempts' = http_attempts + 1
    /\ \E body \in Bodies : response_body' = Some(body)
    /\ last_failure' = NoFailure
    /\ pc' = "parse"
    /\ UNCHANGED <<max_retries, attempt, sleeps>>
    /\ UNCHANGED <<plannerVars, cropperVars, pipelineVars, pureVars, storeVars>>

\* Lines 174-196: an attempt that fails; it sleeps and goes round again, or
\* raises.
AttemptFails ==
    /\ pc = "request"
    /\ attempt <= max_retries
    /\ http_attempts' = http_attempts + 1
    /\ \E f \in Failures :
          /\ last_failure' = f
          /\ IF IsRetryable(f) /\ attempt < max_retries
             THEN /\ sleeps' = Append(sleeps, Backoff(attempt))
                  /\ attempt' = attempt + 1
                  /\ pc' = "request"
             ELSE /\ pc' = "raised"
                  /\ UNCHANGED <<sleeps, attempt>>
    /\ UNCHANGED <<max_retries, response_body>>
    /\ UNCHANGED <<plannerVars, cropperVars, pipelineVars, pureVars, storeVars>>

\* Lines 198-225: the body is parsed and the JSON object returned, or an
\* error is raised.
ParseBody ==
    /\ pc = "parse"
    /\ pc' = IF ~response_body.none /\ response_body.val = "json_object"
             THEN "returned" ELSE "raised"
    /\ UNCHANGED requestVars
    /\ UNCHANGED <<plannerVars, cropperVars, pipelineVars, pureVars, storeVars>>

NextRequest ==
    \/ AttemptSucceeds
    \/ AttemptFails
    \/ ParseBody

\* The loop is sequential code and every urlopen call returns or fails within
\* its timeout, so a step that is possible is eventually taken.
SpecRequest == InitRequest /\ [][NextRequest]_vars /\ WF_vars(NextRequest)

RequestEnded == pc \in {"returned", "raised"}

\* At most max_retries + 1 attempts, one more than the sleeps made; the k-th
\* sleep lasts min(6.0, 1.2 * k) seconds; the loop goes round again only after
\* a retryable failure, and raises after one only on the last attempt.
RequestBounded ==
    /\ http_attempts <= max_retries + 1
    /\ Len(sleeps) <= max_retries
    /\ pc \in {"parse", "returned", "raised"} => http_attempts = Len(sleeps) + 1
    /\ pc = "request" => http_attempts = Len(sleeps)
    /\ \A k \in 1..Len(sleeps) :
          IF 12 * k <= 60 THEN sleeps[k] = 12 * k ELSE sleeps[k] = 60
    /\ (pc = "request" /\ http_attempts > 0) => IsRetryable(last_failure)
    /\ (pc = "raised" /\ last_failure # NoFailure /\ IsRetryable(last_failure)) =>
          http_attempts = max_retries + 1
    /\ pc = "returned" => response_body = Some("json_object")

\* C23: _request_json makes at most max_retries + 1 attempts, retries only
\* after a retryable status or a timeout and only while attempts remain,
\* raises at once on any other failure, waits min(6.0, 1.2 * k) seconds
\* before the k-th retry, and always ends with a result or a raised error.
C23_BoundedRetriesAndTermination == []RequestBounded /\ <>RequestEnded

\* Six retries were made, the last two after the capped wait of 6 seconds,
\* and the seventh attempt failed with a retryable status: the error is raised.
C23_Witness ==
    /\ pc = "raised"
    /\ max_retries = 6
    /\ http_attempts = 7
    /\ Len(sleeps) = 6
    /\ sleeps[5] = 60 /\ sleeps[6] = 60
    /\ last_failure = Failure("http", 503)

-----------------------------------------------------------------------------
(* The regions of _ranges_from_page_hints and their pages *)

\* The parsed hint of question q of the call.
ParsedHint(q) == ParseHint(hints.val[q], q)

\* C25: every region of _ranges_from_page_hints lies within its page, with
\* 0 <= y1 < y2 <= pageHeight and 0 <= x1 < x2 <= pageWidth; a region whose
\* hint has leftRatio < rightRatio has x bounds converted from those ratios,
\* and every other region spans the full page width.
C25_RegionsWithinPage ==
    (pc = "returned" /\ ~planned.none) =>
        \A q \in 1..Len(planned.val) :
            LET r == planned.val[q]
                page_height == Max(1, pages[r.page_zero + 1].height)
                page_width  == Max(1, pages[r.page_zero + 1].width)
                item == ParsedHint(q)
            IN  /\ 0 <= r.y1 /\ r.y1 < r.y2 /\ r.y2 <= page_height
                /\ 0 <= r.x1 /\ r.x1 < r.x2 /\ r.x2 <= page_width
                /\ item.has_x =>
                      /\ r.x1 = Min(page_width - 1, RatioToPx(item.left, RatioScale, page_width))
                      /\ r.x2 >= Min(page_width, RatioToPx(item.right, RatioScale, page_width))
                /\ ~item.has_x => r.x1 = 0 /\ r.x2 = page_width

\* The parsed hints of the questions of page p, in question order.
PageLocals(p) ==
    SelectSeq([q \in 1..question_count |-> ParsedHint(q)], LAMBDA item : item.pageIndex = p)

\* The position of question q among the questions of its page.
LocalIndex(q) ==
    Cardinality({ o \in 1..q : ParsedHint(o).pageIndex = ParsedHint(q).pageIndex })

\* Hint j comes before hint i in the top-to-bottom order of their column
\* (equal tops keep the question order).
AboveInColumn(locals, j, i) ==
    /\ ColumnOf(locals[j]) = ColumnOf(locals[i])
    /\ \/ locals[j].top < locals[i].top
       \/ locals[j].top = locals[i].top /\ j < i

\* The hints that keep a positive span: bottom > top, and bottom below the
\* bottom of every such hint above it in its column.
Resolved(locals) ==
    CHOOSE R \in SUBSET (1..Len(locals)) :
        \A i \in 1..Len(locals) :
            i \in R <=> /\ locals[i].valid
                        /\ \A j \in R : AboveInColumn(locals, j, i) =>
                                            locals[i].bottom > locals[j].bottom

SetMax(S) == CHOOSE x \in S : \A y \in S : y <= x
SetMin(S) == CHOOSE x \in S : \A y \in S : x <= y

\* The top of a resolved hint after the clamp to the bottoms above it.
ClampedTop(locals, R, i) ==
    SetMax({locals[i].top} \cup { locals[j].bottom : j \in { o \in R : AboveInColumn(locals, o, i) } })

\* The ratios of an unresolved entry li: its share of the gap between the
\* nearest resolved entries before and after it on the page (or the page
\* edges), divided evenly among the unresolved entries of the gap.
Interpolated(locals, R, li) ==
    LET n     == Len(locals)
        a     == SetMax({0} \cup { j \in R : j < li })
        b     == SetMin({n + 1} \cup { j \in R : j > li })
        cnt   == b - a - 1
        left  == IF a > 0 THEN locals[a].bottom ELSE 0
        right0 == IF b <= n THEN ClampedTop(locals, R, b) ELSE RatioScale
        right == IF right0 <= left THEN Min(RatioScale, left + FallbackSpanPerItem * cnt)
                 ELSE right0
        span  == Max(MinFillSpan, right - left)
        k     == li - a - 1
    IN  RatioEntry(left * cnt + span * k, cnt * RatioScale,
                   left * cnt + span * (k + 1), cnt * RatioScale, "fallback")

\* C26: a region of _ranges_from_page_hints has source "gemini" exactly when
\* its own hint had bottomRatio > topRatio and kept a positive span after its
\* top was clamped to the bottom of the previous region of its column; every
\* other region has source "fallback" and the vertical range of the even
\* interpolation between its nearest resolved neighbours or the page edges.
C26_SourceTellsTier ==
    (pc = "returned" /\ ~planned.none) =>
        \A q \in 1..Len(planned.val) :
            LET r      == planned.val[q]
                p      == ParsedHint(q).pageIndex
                locals == PageLocals(p)
                li     == LocalIndex(q)
                R      == Resolved(locals)
                expect == RegionPx(locals[li], Interpolated(locals, R, li),
                                   Max(1, pages[p].height), Max(1, pages[p].width))
            IN  /\ locals[li].qidx = q
                /\ r.source \in {"gemini", "fallback"}
                /\ r.source = "gemini" <=> li \in R
                /\ li \notin R => r.y1 = expect.y1 /\ r.y2 = expect.y2

\* Two hints of one column: the second one has bottomRatio > topRatio but
\* lies inside the first, so it is a fallback region below the first.
C26_Witness ==
    /\ pc = "returned"
    /\ ~planned.none
    /\ Len(planned.val) = 2
    /\ ParsedHint(1).valid /\ ParsedHint(2).valid
    /\ planned.val[1].source = "gemini"
    /\ planned.val[2].source = "fallback"
    /\ planned.val[2].page_zero = planned.val[1].page_zero
    /\ planned.val[2].y1 >= planned.val[1].y2

-----------------------------------------------------------------------------
(* The detections _pick_starts_for_questions hands out *)

\* y as line 271 reads it.
ClampedY(height, y) == Max(0, Min(height - 1, y))

\* C27: _pick_starts_for_questions never assigns one detected anchor to two
\* labels: the result has at most one entry per label, and a y occurs in it
\* at most as often as there are detections at that y.
C27_EachAnchorOnce ==
    pc = "returned" =>
        /\ Len(result) <= Len(args.question_labels)
        /\ \A k \in 1..Len(result) :
              Cardinality({ j \in 1..Len(result) : result[j] = result[k] })
                  <= Cardinality({ i \in 1..Len(args.detected_starts) :
                                     ClampedY(args.height, args.detected_starts[i][1]) = result[k] })

-----------------------------------------------------------------------------
(* QuestionCropper._normalize_ranges on its own *)

MaxBands == 3
MaxStarts == 3

\* Canvases 2, 100 and 1000 pixels high; starts at the top, inside, near the
\* bottom and below the canvas.
NormalizeHeights == {2, 100, 1000}
NormalizeStarts == {0, 50, 300, 990, 1200}
NormalizeArgs ==
    { [height |-> h, count |-> c, starts |-> st] :
        h \in NormalizeHeights, c \in 1..MaxBands,
        st \in UNION { [1..n -> NormalizeStarts] : n \in 0..MaxStarts } }

InitNormalize ==
    /\ ProgramIdle
    /\ args \in NormalizeArgs
    /\ result = <<>>
    /\ pc = "call"

CallNormalize ==
    /\ pc = "call"
    /\ result' = NormalizeRanges(args.height, args.count, args.starts)
    /\ pc' = "returned"
    /\ UNCHANGED <<plannerVars, cropperVars, pipelineVars, storeVars, requestVars, args>>

NextNormalize == CallNormalize

SpecNormalize == InitNormalize /\ [][NextNormalize]_vars

\* Exactly count ranges, each with 0 <= y1 < y2 <= height.
BandsWithinCanvas ==
    /\ Len(result) = args.count
    /\ \A i \in 1..Len(result) :
          0 <= result[i][1] /\ result[i][1] < result[i][2] /\ result[i][2] <= args.height

\* Contiguous bands from 0 to height, all but the last of one height.
BandsUniform ==
    /\ result[1][1] = 0
    /\ result[Len(result)][2] = args.height
    /\ \A i \in 1..(Len(result) - 1) :
          /\ result[i][2] = result[i + 1][1]
          /\ result[i][2] - result[i][1] = result[1][2] - result[1][1]

\* The bands after the n given starts begin 12 pixels above starts spaced by
\* one gap after the last given start (kept inside the canvas).
BandsExtrapolated(n) ==
    LET last == SetMax({ ClampedY(args.height, args.starts[i]) : i \in 1..n })
    IN  \E gap \in 1..args.height :
            \A i \in (n + 1)..args.count :
                result[i][1] = Max(0, Min(args.height - 1, last + gap * (i - n)) - 12)

\* C28: for height >= 1 and count >= 1 _normalize_ranges returns exactly
\* count ranges with 0 <= y1 < y2 <= height; with no starts they are count
\* contiguous equal bands from 0 to height; with fewer starts than count the
\* missing starts follow the last known one at a constant spacing.
C28_NormalizedBands ==
    pc = "returned" =>
        /\ BandsWithinCanvas
        /\ args.starts = <<>> => BandsUniform
        /\ (args.starts # <<>> /\ Len(args.starts) < args.count) =>
              BandsExtrapolated(Len(args.starts))

-----------------------------------------------------------------------------
(* QuestionCropper._ranges_from_hints on its own *)

MaxFlatHints == 3

\* (topRatio, bottomRatio) pairs for the flattened canvas: the pairs of the
\* page planner, an inverted pair, a pair that is equal after clamping, a
\* non-numeric top, and a bottom beyond the canvas.
FlatYPairs ==
    YPairs \cup { <<RawNum(400), RawNum(100)>>,
                  <<RawNum(1000), RawNum(1500)>>,
                  <<RawText, RawNum(400)>>,
                  <<RawNum(600), RawNum(1200)>> }

FlatHints ==
    {NonDictHint} \cup { Hint(RawNone, y[1], y[2], RawNone, RawNone) : y \in FlatYPairs }

\* Canvases 1000 and 20 pixels high.
FlatArgs ==
    { [height |-> h, count |-> c, hints |-> hs] :
        h \in {1000, 20}, c \in 1..MaxFlatHints,
        hs \in {None} \cup { Some(l) : l \in UNION { [1..n -> FlatHints] : n \in 0..MaxFlatHints } } }

InitFlat ==
    /\ ProgramIdle
    /\ args \in FlatArgs
    /\ result = <<>>
    /\ pc = "call"

CallFlat ==
    /\ pc = "call"
    /\ result' = RangesFromHints(args.height, args.count, args.hints)
    /\ pc' = "returned"
    /\ UNCHANGED <<plannerVars, cropperVars, pipelineVars, storeVars, requestVars, args>>

NextFlat == CallFlat

SpecFlat == InitFlat /\ [][NextFlat]_vars

\* Hint i of the call is missing, not a dict, non-numeric, or has
\* bottomRatio <= topRatio after clamping to [0, 1].
FlatHintUnusable(i) ==
    \/ args.hints.none
    \/ i > Len(args.hints.val)
    \/ LET hint == args.hints.val[i]
       IN  \/ ~hint.isDict
           \/ hint.topRatio.t # "num"
           \/ hint.bottomRatio.t # "num"
           \/ Max(0, Min(RatioScale, hint.bottomRatio.v)) <= Max(0, Min(RatioScale, hint.topRatio.v))

\* C29: _ranges_from_hints returns null or exactly count ranges in question
\* order with 0 <= y1 < y2 <= height, each beginning at or after the end of
\* the one before, the last ending at height; it returns null whenever one
\* of the first count hints is missing, not a dict, non-numeric, or has
\* bottomRatio <= topRatio after clamping to [0, 1].
C29_FlatRangesOrderedOrNull ==
    pc = "returned" =>
        /\ result.none \/
              /\ Len(result.val) = args.count
              /\ \A i \in 1..Len(result.val) :
                    /\ 0 <= result.val[i][1]
                    /\ result.val[i][1] < result.val[i][2]
                    /\ result.val[i][2] <= args.height
                    /\ i > 1 => result.val[i][1] >= result.val[i - 1][2]
              /\ result.val[args.count][2] = args.height
        /\ (\E i \in 1..args.count : FlatHintUnusable(i)) => result.none

\* Three usable hints, the second overlapping the first: three ranges, the
\* second beginning where the first ends.
C29_Witness ==
    /\ pc = "returned"
    /\ args.count = 3
    /\ ~result.none
    /\ Len(result.val) = 3
    /\ args.hints.val[2].topRatio.v < args.hints.val[1].bottomRatio.v
    /\ result.val[2][1] = result.val[1][2]
    /\ result.val[3][2] = args.height

-----------------------------------------------------------------------------
(* The validity of the hints _postprocess_crop_hints returns *)

\* 0 <= topRatio < bottomRatio <= 1
HintValid(hint) ==
    /\ hint.present
    /\ 0 <= hint.topRatio
    /\ hint.topRatio < hint.bottomRatio
    /\ hint.bottomRatio <= HintScale

\* C30: _postprocess_crop_hints preserves hint validity: a crop hint with
\* 0 <= topRatio < bottomRatio <= 1 on entry has 0 <= topRatio < bottomRatio
\* <= 1 on return.
C30_ValidHintsStayValid ==
    pc = "returned" =>
        \A i \in 1..Len(args) :
            HintValid(args[i].metadata.cropHint) =>
                HintValid(result[ReturnedOf(i)].metadata.cropHint)

=============================================================================
